---- MODULE Spec2Model ----
(***************************************************************************)
(* A model of the tuz semantic-analysis core: the Scope / Symbol table of  *)
(* include/tuz/ast.h and the Resolver of src/resolver.cpp.  The Resolver's *)
(* recursive tree walk is modelled in small steps: one action per visit    *)
(* handler, with the C++ call stack kept as an explicit stack of pending   *)
(* work (tasks).                                                           *)
(***************************************************************************)
EXTENDS Integers, Sequences, FiniteSets, TLC

(***************************************************************************)
(* Types (TypePtr).  Primitive, pointer and placeholder types are values;  *)
(* a Struct type is an object of the heap struct_types, named by its index *)
(* there, so that two Struct objects of the same name are different types. *)
(***************************************************************************)
NullType == [kind |-> "Null"]

Primitive(n) == [kind |-> "Primitive", name |-> n]

PointerType(t) == [kind |-> "Pointer", pointee |-> t]

TypeName(n) == [kind |-> "TypeName", name |-> n]

StructType(id) == [kind |-> "Struct", id |-> id]

FunctionType(args, ret) == [kind |-> "Function", params |-> args, ret |-> ret]

IntT == Primitive("int")

get_int32_type == Primitive("int")

get_float32_type == Primitive("float")

get_bool_type == Primitive("bool")

(***************************************************************************)
(* AST nodes.  Every node is a record of one shape: its kind, a name (the  *)
(* identifier, field or declared name), a type (declared type, cast target *)
(* or return type), its child nodes in source order and, for declarations, *)
(* its members (parameters or fields).  A null child pointer is NullNode.  *)
(***************************************************************************)
Node(kind, name, ty, kids, members) ==
  [kind |-> kind, name |-> name, ty |-> ty, kids |-> kids, members |-> members]

NullNode == Node("Null", "", NullType, <<>>, <<>>)

Member(name, ty) == [name |-> name, type |-> ty]

IntegerLiteralExpr == Node("IntegerLiteralExpr", "", NullType, <<>>, <<>>)

FloatLiteralExpr == Node("FloatLiteralExpr", "", NullType, <<>>, <<>>)

BoolLiteralExpr == Node("BoolLiteralExpr", "", NullType, <<>>, <<>>)

StringLiteralExpr == Node("StringLiteralExpr", "", NullType, <<>>, <<>>)

VariableExpr(n) == Node("VariableExpr", n, NullType, <<>>, <<>>)

BinaryOpExpr(l, r) == Node("BinaryOpExpr", "", NullType, <<l, r>>, <<>>)

UnaryOpExpr(e) == Node("UnaryOpExpr", "", NullType, <<e>>, <<>>)

CallExpr(callee, args) == Node("CallExpr", "", NullType, <<callee>> \o args, <<>>)

IndexExpr(arr, i) == Node("IndexExpr", "", NullType, <<arr, i>>, <<>>)

FieldAccessExpr(obj, f) == Node("FieldAccessExpr", f, NullType, <<obj>>, <<>>)

CastExpr(t, e) == Node("CastExpr", "", t, <<e>>, <<>>)

ExprStmt(e) == Node("ExprStmt", "", NullType, <<e>>, <<>>)

LetStmt(n, t, init) == Node("LetStmt", n, t, <<init>>, <<>>)

AssignStmt(tgt, val) == Node("AssignStmt", "", NullType, <<tgt, val>>, <<>>)

BlockStmt(stmts) == Node("BlockStmt", "", NullType, stmts, <<>>)

IfStmt(c, t, e) == Node("IfStmt", "", NullType, <<c, t, e>>, <<>>)

WhileStmt(c, b) == Node("WhileStmt", "", NullType, <<c, b>>, <<>>)

ForStmt(v, s, e, b) == Node("ForStmt", v, NullType, <<s, e, b>>, <<>>)

ReturnStmt(v) == Node("ReturnStmt", "", NullType, <<v>>, <<>>)

FunctionDecl(n, params, ret, body) == Node("FunctionDecl", n, ret, <<body>>, params)

StructDecl(n, fields) == Node("StructDecl", n, NullType, <<>>, fields)

GlobalDecl(n, t, init) == Node("GlobalDecl", n, t, <<init>>, <<>>)

ExprKinds ==
  {"IntegerLiteralExpr", "FloatLiteralExpr", "BoolLiteralExpr", "StringLiteralExpr",
   "VariableExpr", "BinaryOpExpr", "UnaryOpExpr", "CallExpr", "IndexExpr",
   "FieldAccessExpr", "CastExpr"}

(***************************************************************************)
(* Generic helpers on sequences.                                           *)
(***************************************************************************)
Range(s) == {s[i] : i \in DOMAIN s}

SeqsUpTo(S, n) == UNION {[1..k -> S] : k \in 0..n}

Last(s) == s[Len(s)]

Front(s) == SubSeq(s, 1, Len(s) - 1)

(***************************************************************************)
(* The programs handed to the Resolver.  The parser is outside the model;  *)
(* it leaves every annotation slot unset, writes a named type as an        *)
(* UnresolvedName placeholder (TypeName) and a pointer type as a Pointer   *)
(* to what it points to.                                                   *)
(***************************************************************************)
MaxFields == 3

MaxStmts == 3

StructNames == {"A", "B"}

FieldNamePool == <<"f1", "f2", "f3", "f4", "f5", "f6">>

FieldTypes ==
  {IntT} \cup {TypeName(s) : s \in StructNames}
         \cup {PointerType(TypeName(s)) : s \in StructNames}

FieldsOf(types) == [i \in DOMAIN types |-> Member(FieldNamePool[i], types[i])]

\* Programs of one or two struct declarations (names may repeat) with at most
\* MaxFields fields in all.
StructPrograms ==
  {<<StructDecl(n, FieldsOf(ts))>> :
      n \in StructNames, ts \in SeqsUpTo(FieldTypes, MaxFields)}
  \cup
  UNION {
    {<<StructDecl(n1, FieldsOf(ts1)), StructDecl(n2, FieldsOf(ts2))>> :
        n1 \in StructNames, n2 \in StructNames,
        ts1 \in [1..k1 -> FieldTypes],
        ts2 \in SeqsUpTo(FieldTypes, MaxFields - k1)} : k1 \in 0..MaxFields}

\* Programs  struct S { a: int, n: *S }  fn g() -> S {}  fn main() { body }
\* whose body is any sequence of at most MaxStmts statements of BodyPool.
StructS == StructDecl("S", <<Member("a", IntT), Member("n", PointerType(TypeName("S")))>>)

FunctionG(ret) == FunctionDecl("g", <<>>, ret, BlockStmt(<<>>))

BodyPool ==
  {LetStmt("x", IntT, IntegerLiteralExpr),
   LetStmt("x", TypeName("S"), CallExpr(VariableExpr("g"), <<>>)),
   LetStmt("y", PointerType(TypeName("S")), VariableExpr("x")),
   LetStmt("x", TypeName("U"), IntegerLiteralExpr),
   LetStmt("x", IntT, VariableExpr("y")),
   ExprStmt(VariableExpr("x")),
   ExprStmt(FieldAccessExpr(VariableExpr("x"), "a")),
   ExprStmt(FieldAccessExpr(VariableExpr("y"), "a")),
   ExprStmt(FieldAccessExpr(VariableExpr("x"), "zz")),
   BlockStmt(<<LetStmt("x", TypeName("S"), IntegerLiteralExpr),
               ExprStmt(VariableExpr("x"))>>)}

BodyPrograms ==
  {<<StructS, FunctionG(TypeName("S")),
     FunctionDecl("main", <<>>, IntT, BlockStmt(body))>> :
      body \in SeqsUpTo(BodyPool, MaxStmts)}

\* Programs about references to the function g from the body of f: g declared
\* before or after f (or twice), a struct, a parameter or a local named g.
RefPool ==
  {LetStmt("g", IntT, IntegerLiteralExpr),
   ExprStmt(CallExpr(VariableExpr("g"), <<IntegerLiteralExpr>>)),
   ExprStmt(VariableExpr("g")),
   BlockStmt(<<ExprStmt(VariableExpr("g"))>>)}

FunctionF(param, body) ==
  FunctionDecl("f", <<Member(param, IntT)>>, IntT, BlockStmt(body))

RefPrograms ==
  {pre \o mid \o post :
      pre \in {<<>>, <<StructDecl("g", <<Member("a", IntT)>>)>>},
      mid \in UNION {
        {<<FunctionF(param, body), FunctionG(IntT)>>,
         <<FunctionG(IntT), FunctionF(param, body)>>} :
           param \in {"p", "g"}, body \in SeqsUpTo(RefPool, 2)},
      post \in {<<>>, <<FunctionG(IntT)>>, <<StructDecl("g", <<>>)>>}}

\* Programs  struct S {...}  let G: S = 1.5;  fn k(a: int) -> int { body }
\* whose body is at most two statements of KindsPool: the other kinds of node.
KindsPool ==
  {LetStmt("b", Primitive("bool"), BoolLiteralExpr),
   LetStmt("s", IntT, StringLiteralExpr),
   LetStmt("a", Primitive("float"), FloatLiteralExpr),
   AssignStmt(VariableExpr("a"),
              BinaryOpExpr(VariableExpr("a"), UnaryOpExpr(VariableExpr("b")))),
   ExprStmt(IndexExpr(VariableExpr("a"), IntegerLiteralExpr)),
   ExprStmt(CastExpr(TypeName("S"), VariableExpr("a"))),
   ExprStmt(CastExpr(TypeName("U"), VariableExpr("a"))),
   IfStmt(VariableExpr("u"), BlockStmt(<<ExprStmt(VariableExpr("a"))>>), NullNode),
   IfStmt(BoolLiteralExpr, BlockStmt(<<>>), BlockStmt(<<ExprStmt(VariableExpr("b"))>>)),
   WhileStmt(VariableExpr("u"), BlockStmt(<<ExprStmt(VariableExpr("a"))>>)),
   ForStmt("i", VariableExpr("u"), IntegerLiteralExpr,
           BlockStmt(<<ExprStmt(VariableExpr("i"))>>)),
   ReturnStmt(VariableExpr("u")),
   ReturnStmt(NullNode)}

KindsPrograms ==
  {<<StructS, GlobalDecl("G", TypeName("S"), FloatLiteralExpr),
     FunctionDecl("k", <<Member("a", IntT)>>, IntT, BlockStmt(body))>> :
      body \in SeqsUpTo(KindsPool, 2)}

\* struct A { next: *B }  struct B { next: *A }, in either order.
StructA == StructDecl("A", <<Member("next", PointerType(TypeName("B")))>>)

StructB == StructDecl("B", <<Member("next", PointerType(TypeName("A")))>>)

CyclePrograms == {<<StructA, StructB>>, <<StructB, StructA>>}

\* struct Point { x: int, y: int }  fn make() -> Point { }
\* fn main() -> int { let p = make(); return p.x; }
\* The let has no type annotation: its declared type is null.
PointProgram ==
  <<StructDecl("Point", <<Member("x", IntT), Member("y", IntT)>>),
    FunctionDecl("make", <<>>, TypeName("Point"), BlockStmt(<<>>)),
    FunctionDecl("main", <<>>, IntT,
      BlockStmt(<<LetStmt("p", NullType, CallExpr(VariableExpr("make"), <<>>)),
                  ReturnStmt(FieldAccessExpr(VariableExpr("p"), "x"))>>))>>

\* fn d(a: int, <second>: bool) -> int { a; }  the second parameter named a
\* or b.
ParamPrograms ==
  {<<FunctionDecl("d", <<Member("a", IntT), Member(second, get_bool_type)>>, IntT,
       BlockStmt(<<ExprStmt(VariableExpr("a"))>>))>> : second \in {"a", "b"}}

\* fn h(<param>: int) -> int { <pre> let x: <T> = x; x; }  with the Let in
\* the body or in a block of its own: a Let whose initializer refers to the
\* Let's own name, with or without an x declared around it.
SelfPrograms ==
  {<<FunctionDecl("h", <<Member(param, IntT)>>, IntT,
       BlockStmt(pre \o (IF nested THEN <<BlockStmt(self)>> ELSE self)))>> :
      param \in {"x", "p"},
      pre \in {<<>>, <<LetStmt("x", get_bool_type, BoolLiteralExpr)>>},
      nested \in BOOLEAN,
      self \in {<<LetStmt("x", t, VariableExpr("x")), ExprStmt(VariableExpr("x"))>> :
                  t \in {IntT, TypeName("U")}}}

\* struct S { a: int, n: *S }  fn g() -> S {}  fn m(v: S) -> int { <object>.a; }
\* for an object expression of each kind.
ObjectPool ==
  {StringLiteralExpr,
   IntegerLiteralExpr,
   BinaryOpExpr(VariableExpr("v"), VariableExpr("v")),
   UnaryOpExpr(VariableExpr("v")),
   CallExpr(VariableExpr("g"), <<>>),
   IndexExpr(VariableExpr("v"), IntegerLiteralExpr),
   CastExpr(TypeName("S"), VariableExpr("v")),
   VariableExpr("S"),
   VariableExpr("g"),
   VariableExpr("v"),
   FieldAccessExpr(VariableExpr("v"), "n")}

ObjectPrograms ==
  {<<StructS, FunctionG(TypeName("S")),
     FunctionDecl("m", <<Member("v", TypeName("S"))>>, IntT,
       BlockStmt(<<ExprStmt(FieldAccessExpr(object, "a"))>>))>> : object \in ObjectPool}

\* let G: int = u;  [let G: bool = true;]  [struct G {} | fn G() -> int {}]
\* fn r(<param>: int) -> int { [let G: int = 1;] G; }
\* One or two global variables named G, whose initializer u is declared
\* nowhere, and a reference to G from a function body.
GlobalPrograms ==
  {globals \o hoisted \o
     <<FunctionDecl("r", <<Member(param, IntT)>>, IntT,
         BlockStmt(pre \o <<ExprStmt(VariableExpr("G"))>>))>> :
      globals \in {<<GlobalDecl("G", IntT, VariableExpr("u"))>>,
                   <<GlobalDecl("G", IntT, VariableExpr("u")),
                     GlobalDecl("G", get_bool_type, BoolLiteralExpr)>>},
      hoisted \in {<<>>, <<StructDecl("G", <<>>)>>,
                   <<FunctionDecl("G", <<>>, IntT, BlockStmt(<<>>))>>},
      param \in {"G", "p"},
      pre \in {<<>>, <<LetStmt("G", IntT, IntegerLiteralExpr)>>}}

\* struct S {...}  fn f(<first>: int, q: S) -> S {}  fn c() -> int { f; }
\* with f before or after c, the first parameter named S or p.
SignaturePrograms ==
  UNION {
    {<<StructS, FunctionDecl("f", <<Member(first, IntT), Member("q", TypeName("S"))>>,
                             TypeName("S"), BlockStmt(<<>>)),
       FunctionDecl("c", <<>>, IntT, BlockStmt(<<ExprStmt(VariableExpr("f"))>>))>>,
     <<StructS, FunctionDecl("c", <<>>, IntT, BlockStmt(<<ExprStmt(VariableExpr("f"))>>)),
       FunctionDecl("f", <<Member(first, IntT), Member("q", TypeName("S"))>>,
                    TypeName("S"), BlockStmt(<<>>))>>} : first \in {"S", "p"}}

\* struct S {...}  fn F() -> int {}  let G: F = 1.5;
\* fn w(<param>: int) -> int { let x: <T> = 1; x as <T>; }
\* with the parameter named S or p and the type T written S or F: type names
\* whose nearest binding is a variable or a function.
ShadowPrograms ==
  {<<StructS, FunctionDecl("F", <<>>, IntT, BlockStmt(<<>>)),
     GlobalDecl("G", TypeName("F"), FloatLiteralExpr),
     FunctionDecl("w", <<Member(param, IntT)>>, IntT,
       BlockStmt(<<LetStmt("x", TypeName(t), IntegerLiteralExpr),
                   ExprStmt(CastExpr(TypeName(t), VariableExpr("x")))>>))>> :
      param \in {"S", "p"}, t \in {"S", "F"}}

(***************************************************************************)
(* State.                                                                  *)
(*   program        the declarations of the Program being resolved         *)
(*   program_scope  Program::scope, the parent of the Resolver's first     *)
(*                  scope                                                  *)
(*   scope_stack    Resolver::scope_stack, innermost scope last; a scope   *)
(*                  maps a name to the sequence of symbols declared for it *)
(*   symbols        every Symbol object made so far, a symbol being named  *)
(*                  by its index here                                      *)
(*   struct_types   every StructType object made so far                    *)
(*   pc, idx        the phase of resolve() and the index of its loop       *)
(*   tasks          the pending work of the tree walk, next step first     *)
(*   expr_type, expr_symbol, decl_symbol, member_symbol                    *)
(*                  the annotation slots Expr::type, VariableExpr::symbol, *)
(*                  LetStmt/ForStmt::symbol and Param::symbol, each the    *)
(*                  sequence of values assigned to it, keyed by node path  *)
(*   node_type, member_type                                                *)
(*                  the type slots the pass rewrites in place (declared,   *)
(*                  cast target, return and global types; parameter and    *)
(*                  field types), as the sequence of values assigned       *)
(*   error          the exception that ended the pass, if any              *)
(***************************************************************************)
VARIABLES program, program_scope, scope_stack, symbols, struct_types, pc, idx,
          tasks, expr_type, expr_symbol, decl_symbol, member_symbol,
          node_type, member_type, error

\* The Lexer's fields and the token list tokenize() is building.
VARIABLES source_, position_, line_, column_, current_, tokens

\* The ConsoleDiagnosticConsumer's counters, and how many messages of each
\* level it has consumed since it was constructed or last reset.
VARIABLES error_count_, warning_count_, consumed

\* The SourceFile's fields, the last get_line call with its result, and the
\* last print_source_context call with the carets it printed.
VARIABLES content_, line_offsets_, got_line, context

lexer == <<source_, position_, line_, column_, current_, tokens>>

source_file == <<content_, line_offsets_, got_line, context>>

consumer == <<error_count_, warning_count_, consumed>>

vars == <<program, program_scope, scope_stack, symbols, struct_types, pc, idx,
          tasks, expr_type, expr_symbol, decl_symbol, member_symbol,
          node_type, member_type, error, lexer, consumer, source_file>>

\* No Lexer has been constructed.
NoLexer ==
  /\ source_ = <<>>
  /\ position_ = 0
  /\ line_ = 1
  /\ column_ = 1
  /\ current_ = "NUL"
  /\ tokens = <<>>

\* No ConsoleDiagnosticConsumer has been constructed.
NoConsumer ==
  /\ error_count_ = [hi |-> 0, lo |-> 0]
  /\ warning_count_ = [hi |-> 0, lo |-> 0]
  /\ consumed = [errors |-> [hi |-> 0, lo |-> 0], warnings |-> [hi |-> 0, lo |-> 0],
                 notes |-> 0, calls |-> 0]

\* No SourceFile has been constructed and nothing has been printed.
NoSourceFile ==
  /\ content_ = <<>>
  /\ line_offsets_ = <<0>>
  /\ got_line = [line_num |-> 0, text |-> <<>>]
  /\ context = [line |-> 0, column |-> [hi |-> 0, lo |-> 0],
                length |-> [hi |-> 0, lo |-> 0], carets |-> <<>>]

annotations == <<expr_type, expr_symbol, decl_symbol, member_symbol,
                 node_type, member_type>>

(***************************************************************************)
(* Scope (ast.h).  std::optional results are records with a found flag.    *)
(***************************************************************************)
EmptyScope == [n \in {} |-> <<>>]

NotFound == [found |-> FALSE, vec |-> <<>>]

\* declare that keeps only the symbol declared last.
declare_Replace(scope, name, id) ==
  IF name \in DOMAIN scope
    THEN [scope EXCEPT ![name] = <<id>>]
    ELSE scope @@ (name :> <<id>>)

declare(scope, name, id) ==
  IF name \in DOMAIN scope
    THEN [scope EXCEPT ![name] = Append(@, id)]
    ELSE scope @@ (name :> <<id>>)

lookup_local(scope, name) ==
  IF name \in DOMAIN scope
    THEN [found |-> TRUE, vec |-> scope[name]]
    ELSE NotFound

\* chain: the scope itself first, then its parents outward.
RECURSIVE lookup(_, _)
lookup(chain, name) ==
  IF chain = <<>> THEN NotFound
  ELSE IF lookup_local(Head(chain), name).found
    THEN lookup_local(Head(chain), name)
    ELSE lookup(Tail(chain), name)

lookup_first(chain, name) ==
  LET r == lookup(chain, name) IN
  IF r.found /\ r.vec # <<>>
    THEN [found |-> TRUE, sym |-> r.vec[1]]
    ELSE [found |-> FALSE, sym |-> 0]

Reverse(s) == [i \in DOMAIN s |-> s[Len(s) + 1 - i]]

\* The chain walked from the outermost scope inwards.
ChainOf_OuterFirst(stack, root) == stack \o <<root>>

\* The chain of Resolver::current_scope(): the top of scope_stack, whose parent
\* links follow the stack down to program.scope.
ChainOf(stack, root) == Reverse(stack) \o <<root>>

(***************************************************************************)
(* Errors: the std::runtime_error messages of resolver.cpp, as the parts   *)
(* that are concatenated, under the error kinds of the design.             *)
(***************************************************************************)
NoError == [kind |-> "None", detail |-> "", msg |-> <<>>]

Err(kind, detail, msg) == [kind |-> kind, detail |-> detail, msg |-> msg]

\* The message without the identifier.
UnknownIdentifierError_Unnamed(name) ==
  Err("UnresolvedIdentifier", "", <<"Unknown identifier: ">>)

UnknownIdentifierError(name) ==
  Err("UnresolvedIdentifier", "", <<"Unknown identifier: ", name>>)

UnresolvedTypeError(name) ==
  Err("UnresolvedTypeName", "", <<"Failed to resolve type: ", name>>)

DuplicateError(name) ==
  Err("DuplicateLocalDeclaration", "", <<"Variable already declared: ", name>>)

\* resolve_type that accepts only a Struct symbol for a name.
resolve_type_StructOnly(type, chain, syms) ==
  LET symbol_opt == lookup_first(chain, type.name) IN
  IF type.kind = "TypeName"
    THEN IF symbol_opt.found /\ syms[symbol_opt.sym].kind = "Struct"
           THEN [ok |-> TRUE, type |-> syms[symbol_opt.sym].type, err |-> NoError]
           ELSE [ok |-> FALSE, type |-> type, err |-> UnresolvedTypeError(type.name)]
    ELSE [ok |-> TRUE, type |-> type, err |-> NoError]

\* resolve_type that also looks up the name a pointer points to.
resolve_type_Pointee(type, chain, syms) ==
  LET named == IF type.kind = "Pointer" THEN type.pointee ELSE type
      symbol_opt == lookup_first(chain, named.name)
  IN IF named.kind = "TypeName"
       THEN IF ~symbol_opt.found
              THEN [ok |-> FALSE, type |-> type, err |-> UnresolvedTypeError(named.name)]
              ELSE IF syms[symbol_opt.sym].kind = "Struct"
                THEN [ok |-> TRUE,
                      type |-> IF type.kind = "Pointer"
                                 THEN PointerType(syms[symbol_opt.sym].type)
                                 ELSE syms[symbol_opt.sym].type,
                      err |-> NoError]
                ELSE [ok |-> TRUE, type |-> type, err |-> NoError]
       ELSE [ok |-> TRUE, type |-> type, err |-> NoError]

\* resolve_type that hands every type back as it came.
resolve_type_Unchanged(type, chain, syms) ==
  [ok |-> TRUE, type |-> type, err |-> NoError]

(***************************************************************************)
(* Resolver::resolve_type, for a non-null type.                            *)
(***************************************************************************)
resolve_type(type, chain, syms) ==
  IF type.kind = "TypeName"
    THEN LET symbol_opt == lookup_first(chain, type.name) IN
         IF ~symbol_opt.found
           THEN [ok |-> FALSE, type |-> type, err |-> UnresolvedTypeError(type.name)]
           ELSE IF syms[symbol_opt.sym].kind = "Struct"
             THEN [ok |-> TRUE, type |-> syms[symbol_opt.sym].type, err |-> NoError]
             ELSE [ok |-> TRUE, type |-> type, err |-> NoError]
    ELSE [ok |-> TRUE, type |-> type, err |-> NoError]

(***************************************************************************)
(* Slots: a slot is unset until its first assignment.                      *)
(***************************************************************************)
NoSlots == [k \in {} |-> <<>>]

Assign(slots, key, val) ==
  IF key \in DOMAIN slots
    THEN [slots EXCEPT ![key] = Append(@, val)]
    ELSE slots @@ (key :> <<val>>)

IsSet(slots, key) == key \in DOMAIN slots

Value(slots, key) == Last(slots[key])

\* The current value of a type slot: what the parser wrote until the pass
\* assigns it.
Current(slots, key, parsed) == IF IsSet(slots, key) THEN Value(slots, key) ELSE parsed

RECURSIVE Descend(_, _)
Descend(node, path) ==
  IF path = <<>> THEN node ELSE Descend(node.kids[Head(path)], Tail(path))

NodeAt(path) == Descend(program[Head(path)], Tail(path))

(***************************************************************************)
(* Steps shared by the handlers.                                           *)
(***************************************************************************)
Frame(op, path) == [op |-> op, path |-> path]

\* Every child visited a second time after the last.
VisitFrames_Twice(path, which) ==
  LET present == SelectSeq(which, LAMBDA i : NodeAt(path).kids[i].kind # "Null")
      once == [k \in DOMAIN present |-> Frame("visit", path \o <<present[k]>>)]
  IN once \o once

\* visit_node on the children `which` of the node at path, in that order;
\* visit_node does nothing for a null child.
VisitFrames(path, which) ==
  LET present == SelectSeq(which, LAMBDA i : NodeAt(path).kids[i].kind # "Null")
  IN [k \in DOMAIN present |-> Frame("visit", path \o <<present[k]>>)]

Indices(from, to) == [k \in 1..(to - from + 1) |-> from + k - 1]

\* The handler on top of the walk is done with its own code; `frames` is the
\* work it still has to do, before what its callers have left.
Continue(frames) == tasks' = frames \o Tail(tasks)

\* A throw that is caught where it is raised: the error is noted and the walk
\* goes on with the next step.
Throw_Recover(e) ==
  /\ error' = e
  /\ pc' = pc
  /\ tasks' = IF tasks = <<>> THEN <<>> ELSE Tail(tasks)
  /\ scope_stack' = scope_stack

\* A throw: the exception leaves resolve(), and on its way out every
\* ScopeGuard of the handlers it passes through pops its scope.
Throw(e) ==
  /\ error' = e
  /\ pc' = "failed"
  /\ tasks' = <<>>
  /\ scope_stack' = <<scope_stack[1]>>

\* The current scope taken to be the Resolver's first scope.
Top_First == scope_stack[1]

Top == scope_stack[Len(scope_stack)]

Visiting(kind) ==
  /\ pc = "visit"
  /\ tasks # <<>>
  /\ Head(tasks).op = "visit"
  /\ NodeAt(Head(tasks).path).kind = kind

StructSymbol(name, type) == [kind |-> "Struct", name |-> name, type |-> type]

FunctionSymbol(name, type) == [kind |-> "Function", name |-> name, type |-> type]

VariableSymbol(name, type) == [kind |-> "Variable", name |-> name, type |-> type]

NewStructType(name) == [name |-> name, fields |-> <<>>]

(***************************************************************************)
(* Init: a Program as parsed, and a Resolver just constructed on it: the   *)
(* constructor pushes the first scope, a child of program.scope.           *)
(***************************************************************************)
Programs ==
  StructPrograms \cup BodyPrograms \cup RefPrograms \cup KindsPrograms
    \cup CyclePrograms \cup {PointProgram} \cup ParamPrograms \cup SelfPrograms
    \cup ObjectPrograms \cup GlobalPrograms \cup SignaturePrograms
    \cup ShadowPrograms

Init ==
  /\ program \in Programs
  /\ NoLexer
  /\ NoConsumer
  /\ NoSourceFile
  /\ program_scope = EmptyScope
  /\ scope_stack = <<EmptyScope>>
  /\ symbols = <<>>
  /\ struct_types = <<>>
  /\ pc = "declare_structs"
  /\ idx = 1
  /\ tasks = <<>>
  /\ expr_type = NoSlots
  /\ expr_symbol = NoSlots
  /\ decl_symbol = NoSlots
  /\ member_symbol = NoSlots
  /\ node_type = NoSlots
  /\ member_type = NoSlots
  /\ error = NoError

\* The end of a loop taken after its first iteration.
NextPhase_Early(next) == pc' = next /\ idx' = 1

\* The end of a loop over program.declarations: on to the next phase.
NextPhase(next) ==
  IF idx = Len(program)
    THEN pc' = next /\ idx' = 1
    ELSE pc' = pc /\ idx' = idx + 1

(***************************************************************************)
(* declare_structs, first loop: one iteration.                             *)
(***************************************************************************)
DeclareStructSymbol ==
  /\ pc = "declare_structs"
  /\ LET decl == program[idx] IN
     IF decl.kind = "StructDecl"
       THEN /\ struct_types' = Append(struct_types, NewStructType(decl.name))
            /\ symbols' = Append(symbols,
                 StructSymbol(decl.name, StructType(Len(struct_types) + 1)))
            /\ scope_stack' = [scope_stack EXCEPT ![Len(scope_stack)] =
                 declare(@, decl.name, Len(symbols) + 1)]
       ELSE UNCHANGED <<struct_types, symbols, scope_stack>>
  /\ NextPhase("fill_structs")
  /\ UNCHANGED <<lexer, consumer, source_file, program, program_scope, tasks, annotations, error>>

\* The loop over decl->fields: resolve_type each field type and append it to
\* the struct type's fields, up to the first throw.
RECURSIVE FillFields(_, _, _, _)
FillFields(fields, i, acc, chain) ==
  IF i > Len(fields) THEN [fields |-> acc, err |-> NoError]
  ELSE LET resolved == resolve_type(fields[i].type, chain, symbols) IN
       IF ~resolved.ok THEN [fields |-> acc, err |-> resolved.err]
       ELSE FillFields(fields, i + 1,
                       Append(acc, Member(fields[i].name, resolved.type)), chain)

(***************************************************************************)
(* declare_structs, second loop: one iteration.                            *)
(***************************************************************************)
FillStructFields ==
  /\ pc = "fill_structs"
  /\ LET decl == program[idx]
         chain == ChainOf(scope_stack, program_scope)
         symbol_opt == lookup_first(chain, decl.name)
     IN
     IF decl.kind # "StructDecl"
       THEN /\ NextPhase("declare_functions")
            /\ UNCHANGED <<struct_types, scope_stack, tasks, error>>
     ELSE IF ~symbol_opt.found
       THEN /\ Throw(Err("InternalInconsistency", "",
                         <<"Internal error: struct not found after declaration: ",
                           decl.name>>))
            /\ UNCHANGED <<struct_types, idx>>
     ELSE IF symbols[symbol_opt.sym].kind # "Struct"
       THEN /\ NextPhase("declare_functions")
            /\ UNCHANGED <<struct_types, scope_stack, tasks, error>>
     ELSE LET id == symbols[symbol_opt.sym].type.id
              filled == FillFields(decl.members, 1, struct_types[id].fields, chain)
          IN /\ struct_types' = [struct_types EXCEPT ![id].fields = filled.fields]
             /\ IF filled.err = NoError
                  THEN /\ NextPhase("declare_functions")
                       /\ UNCHANGED <<scope_stack, tasks, error>>
                  ELSE Throw(filled.err) /\ UNCHANGED idx
  /\ UNCHANGED <<lexer, consumer, source_file, program, program_scope, symbols, annotations>>

\* declare_functions that resolves the parameter and return types it puts
\* into the signature.
DeclareFunction_Resolved ==
  /\ pc = "declare_functions"
  /\ LET func == program[idx]
         chain == ChainOf(scope_stack, program_scope)
         args == [i \in DOMAIN func.members |->
                    resolve_type(func.members[i].type, chain, symbols).type]
         type == FunctionType(args, func.ty)
     IN
     IF func.kind = "FunctionDecl"
       THEN /\ symbols' = Append(symbols, FunctionSymbol(func.name, type))
            /\ scope_stack' = [scope_stack EXCEPT ![Len(scope_stack)] =
                 declare(@, func.name, Len(symbols) + 1)]
       ELSE UNCHANGED <<symbols, scope_stack>>
  /\ NextPhase("visit")
  /\ UNCHANGED <<lexer, consumer, source_file, program, program_scope, struct_types, tasks,
                 annotations, error>>

\* declare_functions with the hoisting left out: no Function symbol is
\* declared ahead of the bodies.
DeclareFunction_NoHoist ==
  /\ pc = "declare_functions"
  /\ NextPhase("visit")
  /\ UNCHANGED <<lexer, consumer, source_file, program, program_scope, scope_stack, symbols, struct_types,
                 tasks, annotations, error>>

(***************************************************************************)
(* declare_functions: one iteration.                                       *)
(***************************************************************************)
DeclareFunction ==
  /\ pc = "declare_functions"
  /\ LET func == program[idx]
         args == [i \in DOMAIN func.members |-> func.members[i].type]
         type == FunctionType(args, func.ty)
     IN
     IF func.kind = "FunctionDecl"
       THEN /\ symbols' = Append(symbols, FunctionSymbol(func.name, type))
            /\ scope_stack' = [scope_stack EXCEPT ![Len(scope_stack)] =
                 declare(@, func.name, Len(symbols) + 1)]
       ELSE UNCHANGED <<symbols, scope_stack>>
  /\ NextPhase("visit")
  /\ UNCHANGED <<lexer, consumer, source_file, program, program_scope, struct_types, tasks, annotations, error>>

(***************************************************************************)
(* resolve, the loop over program.declarations: visit_node(decl), or the   *)
(* return once every declaration has been visited.                         *)
(***************************************************************************)
VisitNextDeclaration ==
  /\ pc = "visit"
  /\ tasks = <<>>
  /\ IF idx <= Len(program)
       THEN /\ tasks' = <<Frame("visit", <<idx>>)>>
            /\ idx' = idx + 1
            /\ pc' = pc
       ELSE /\ pc' = "done"
            /\ UNCHANGED <<tasks, idx>>
  /\ UNCHANGED <<lexer, consumer, source_file, program, program_scope, scope_stack, symbols, struct_types,
                 annotations, error>>

(***************************************************************************)
(* Expressions.                                                            *)
(***************************************************************************)
Here == Head(tasks).path

\* What a handler that only annotates or only visits children leaves alone.
UnchangedByExpr ==
  UNCHANGED <<lexer, consumer, source_file, program, program_scope, scope_stack, symbols, struct_types, pc, idx,
              decl_symbol, member_symbol, member_type, error>>

VisitIntegerLiteral ==
  /\ Visiting("IntegerLiteralExpr")
  /\ expr_type' = Assign(expr_type, Here, get_int32_type)
  /\ Continue(<<>>)
  /\ UnchangedByExpr /\ UNCHANGED <<expr_symbol, node_type>>

VisitFloatLiteral ==
  /\ Visiting("FloatLiteralExpr")
  /\ expr_type' = Assign(expr_type, Here, get_float32_type)
  /\ Continue(<<>>)
  /\ UnchangedByExpr /\ UNCHANGED <<expr_symbol, node_type>>

VisitBoolLiteral ==
  /\ Visiting("BoolLiteralExpr")
  /\ expr_type' = Assign(expr_type, Here, get_bool_type)
  /\ Continue(<<>>)
  /\ UnchangedByExpr /\ UNCHANGED <<expr_symbol, node_type>>

\* visit(StringLiteralExpr&) that gives the literal a type.
VisitStringLiteral_Typed ==
  /\ Visiting("StringLiteralExpr")
  /\ expr_type' = Assign(expr_type, Here, PointerType(get_int32_type))
  /\ Continue(<<>>)
  /\ UnchangedByExpr /\ UNCHANGED <<expr_symbol, node_type>>

VisitStringLiteral ==
  /\ Visiting("StringLiteralExpr")
  /\ Continue(<<>>)
  /\ UnchangedByExpr /\ UNCHANGED <<expr_type, expr_symbol, node_type>>

VisitVariable ==
  /\ Visiting("VariableExpr")
  /\ LET expr == NodeAt(Here)
         symbol == lookup_first(ChainOf(scope_stack, program_scope), expr.name)
     IN
     IF ~symbol.found
       THEN /\ Throw(UnknownIdentifierError(expr.name))
            /\ UNCHANGED <<expr_symbol, expr_type>>
       ELSE /\ expr_symbol' = Assign(expr_symbol, Here, symbol.sym)
            /\ expr_type' =
                 IF symbols[symbol.sym].kind \in {"Variable", "Function"}
                   THEN Assign(expr_type, Here, symbols[symbol.sym].type)
                   ELSE expr_type
            /\ Continue(<<>>)
            /\ UNCHANGED <<scope_stack, pc, error>>
  /\ UNCHANGED <<lexer, consumer, source_file, program, program_scope, symbols, struct_types, idx,
                 decl_symbol, member_symbol, node_type, member_type>>

VisitBinaryOp ==
  /\ Visiting("BinaryOpExpr")
  /\ Continue(VisitFrames(Here, <<1, 2>>))
  /\ UnchangedByExpr /\ UNCHANGED <<expr_type, expr_symbol, node_type>>

VisitUnaryOp ==
  /\ Visiting("UnaryOpExpr")
  /\ Continue(VisitFrames(Here, <<1>>))
  /\ UnchangedByExpr /\ UNCHANGED <<expr_type, expr_symbol, node_type>>

\* kids[1] is the callee, the arguments follow.
VisitCall ==
  /\ Visiting("CallExpr")
  /\ Continue(VisitFrames(Here, Indices(1, Len(NodeAt(Here).kids))))
  /\ UnchangedByExpr /\ UNCHANGED <<expr_type, expr_symbol, node_type>>

VisitIndex ==
  /\ Visiting("IndexExpr")
  /\ Continue(VisitFrames(Here, <<1, 2>>))
  /\ UnchangedByExpr /\ UNCHANGED <<expr_type, expr_symbol, node_type>>

\* StructType::get_field_type: the type of the first field of that name, null
\* when there is none.
RECURSIVE get_field_type(_, _)
get_field_type(fields, name) ==
  IF fields = <<>> THEN NullType
  ELSE IF Head(fields).name = name THEN Head(fields).type
  ELSE get_field_type(Tail(fields), name)

\* Every level of pointer taken off.
RECURSIVE Unwrapped_AllLevels(_)
Unwrapped_AllLevels(base_type) ==
  IF base_type.kind = "Pointer" THEN Unwrapped_AllLevels(base_type.pointee)
  ELSE base_type

\* if (base_type->kind == TypeKind::Pointer) base_type = pointee;
Unwrapped(base_type) ==
  IF base_type.kind = "Pointer" THEN base_type.pointee ELSE base_type

\* The field access without the check that the field exists.
FieldAccess_Unchecked(object_type, field, structs) ==
  IF object_type.kind = "Null" \/ Unwrapped(object_type).kind # "Struct"
    THEN [ok |-> TRUE, type |-> NullType, err |-> NoError]
    ELSE [ok |-> TRUE, err |-> NoError,
          type |-> get_field_type(structs[Unwrapped(object_type).id].fields, field)]

\* visit(FieldAccessExpr&) from the read of expr.object->type on: the type
\* assigned to the expression, or the exception thrown.
FieldAccess(object_type, field, structs) ==
  LET base_type == Unwrapped(object_type) IN
  IF object_type.kind = "Null"
    THEN [ok |-> FALSE, type |-> NullType,
          err |-> Err("InvalidFieldAccess", "UntypedBase",
                      <<"field access on unknown type">>)]
  ELSE IF base_type.kind # "Struct"
    THEN [ok |-> FALSE, type |-> NullType,
          err |-> Err("InvalidFieldAccess", "NonStructBase",
                      <<"field access on non-struct type: ">>)]
  ELSE LET struct_type == structs[base_type.id]
           field_type == get_field_type(struct_type.fields, field)
       IN IF field_type.kind = "Null"
            THEN [ok |-> FALSE, type |-> NullType,
                  err |-> Err("InvalidFieldAccess", "UnknownField",
                              <<"unknown field '", field, "' in struct ",
                                struct_type.name>>)]
            ELSE [ok |-> TRUE, type |-> field_type, err |-> NoError]

\* visit(FieldAccessExpr&): visit_node(expr.object) first.
VisitFieldAccess ==
  /\ Visiting("FieldAccessExpr")
  /\ Continue(VisitFrames(Here, <<1>>) \o <<Frame("field", Here)>>)
  /\ UnchangedByExpr /\ UNCHANGED <<expr_type, expr_symbol, node_type>>

\* expr.object->type: null until the object's visit has assigned it.
ObjectType(path) ==
  IF IsSet(expr_type, path \o <<1>>) THEN Value(expr_type, path \o <<1>>)
  ELSE NullType

\* visit(FieldAccessExpr&), after the object has been visited.
FinishFieldAccess ==
  /\ pc = "visit" /\ tasks # <<>> /\ Head(tasks).op = "field"
  /\ LET r == FieldAccess(ObjectType(Here), NodeAt(Here).name, struct_types) IN
     IF r.ok
       THEN /\ expr_type' = Assign(expr_type, Here, r.type)
            /\ Continue(<<>>)
            /\ UNCHANGED <<scope_stack, pc, error>>
       ELSE /\ Throw(r.err)
            /\ UNCHANGED expr_type
  /\ UNCHANGED <<lexer, consumer, source_file, program, program_scope, symbols, struct_types, idx, expr_symbol,
                 decl_symbol, member_symbol, node_type, member_type>>

VisitCast ==
  /\ Visiting("CastExpr")
  /\ LET r == resolve_type(Current(node_type, Here, NodeAt(Here).ty),
                           ChainOf(scope_stack, program_scope), symbols)
     IN
     IF r.ok
       THEN /\ node_type' = Assign(node_type, Here, r.type)
            /\ Continue(VisitFrames(Here, <<1>>))
            /\ UNCHANGED <<scope_stack, pc, error>>
       ELSE /\ Throw(r.err)
            /\ UNCHANGED node_type
  /\ UNCHANGED <<lexer, consumer, source_file, program, program_scope, symbols, struct_types, idx, expr_type,
                 expr_symbol, decl_symbol, member_symbol, member_type>>

(***************************************************************************)
(* Statements.                                                             *)
(***************************************************************************)
UnchangedByStmt ==
  UNCHANGED <<lexer, consumer, source_file, program, program_scope, symbols, struct_types, pc, idx,
              annotations, error>>

VisitExprStmt ==
  /\ Visiting("ExprStmt")
  /\ Continue(VisitFrames(Here, <<1>>))
  /\ UnchangedByStmt /\ UNCHANGED scope_stack

\* visit(LetStmt&) that declares the symbol before it visits the initializer.
VisitLet_DeclareFirst ==
  /\ Visiting("LetStmt")
  /\ Continue(<<Frame("let", Here)>> \o VisitFrames(Here, <<1>>))
  /\ UnchangedByStmt /\ UNCHANGED scope_stack

\* visit(LetStmt&): visit_node(stmt.initializer) first.
VisitLet ==
  /\ Visiting("LetStmt")
  /\ Continue(VisitFrames(Here, <<1>>) \o <<Frame("let", Here)>>)
  /\ UnchangedByStmt /\ UNCHANGED scope_stack

\* resolve_type reads type->kind: with a null declared type that is a null
\* dereference, after which the process either dies or carries on with the
\* null type returned.
NullDereference == {"crash", "continue"}

\* visit(LetStmt&), after the initializer has been visited.
DeclareLet ==
  /\ pc = "visit" /\ tasks # <<>> /\ Head(tasks).op = "let"
  /\ LET stmt == NodeAt(Here)
         declared == Current(node_type, Here, stmt.ty)
     IN
     \E ub \in IF declared.kind = "Null" THEN NullDereference ELSE {"defined"} :
       LET r == IF ub = "defined"
                  THEN resolve_type(declared, ChainOf(scope_stack, program_scope),
                                    symbols)
                  ELSE [ok |-> TRUE, type |-> declared, err |-> NoError]
       IN
       IF ub = "crash"
         THEN /\ pc' = "crashed"
              /\ UNCHANGED <<scope_stack, symbols, tasks, node_type, decl_symbol,
                             error>>
       ELSE IF ~r.ok
         THEN /\ Throw(r.err)
              /\ UNCHANGED <<symbols, node_type, decl_symbol>>
       ELSE IF lookup_local(Top, stmt.name).found
         THEN /\ Throw(DuplicateError(stmt.name))
              /\ node_type' = Assign(node_type, Here, r.type)
              /\ UNCHANGED <<symbols, decl_symbol>>
       ELSE /\ node_type' = Assign(node_type, Here, r.type)
            /\ symbols' = Append(symbols, VariableSymbol(stmt.name, r.type))
            /\ decl_symbol' = Assign(decl_symbol, Here, Len(symbols) + 1)
            /\ scope_stack' = [scope_stack EXCEPT ![Len(scope_stack)] =
                 declare(@, stmt.name, Len(symbols) + 1)]
            /\ Continue(<<>>)
            /\ UNCHANGED <<pc, error>>
  /\ UNCHANGED <<lexer, consumer, source_file, program, program_scope, struct_types, idx, expr_type,
                 expr_symbol, member_symbol, member_type>>

VisitAssign ==
  /\ Visiting("AssignStmt")
  /\ Continue(VisitFrames(Here, <<1, 2>>))
  /\ UnchangedByStmt /\ UNCHANGED scope_stack

\* A ScopeGuard that pushes nothing.
push_scope_Nothing(stack) == stack

\* ScopeGuard's constructor: push_scope.
push_scope(stack) == Append(stack, EmptyScope)

VisitBlock ==
  /\ Visiting("BlockStmt")
  /\ scope_stack' = push_scope(scope_stack)
  /\ Continue(VisitFrames(Here, Indices(1, Len(NodeAt(Here).kids)))
              \o <<Frame("pop", Here)>>)
  /\ UnchangedByStmt

\* visit(IfStmt&) that visits the condition as well.
VisitIf_WithCondition ==
  /\ Visiting("IfStmt")
  /\ Continue(VisitFrames(Here, <<1, 2, 3>>))
  /\ UnchangedByStmt /\ UNCHANGED scope_stack

\* kids: condition, then_branch, else_branch.
VisitIf ==
  /\ Visiting("IfStmt")
  /\ Continue(VisitFrames(Here, <<2, 3>>))
  /\ UnchangedByStmt /\ UNCHANGED scope_stack

\* kids: condition, body.
VisitWhile ==
  /\ Visiting("WhileStmt")
  /\ Continue(VisitFrames(Here, <<2>>))
  /\ UnchangedByStmt /\ UNCHANGED scope_stack

\* kids: range_start, range_end, body.
VisitFor ==
  /\ Visiting("ForStmt")
  /\ LET stmt == NodeAt(Here)
         pushed == push_scope(scope_stack)
     IN
     IF lookup_local(Last(pushed), stmt.name).found
       THEN /\ Throw(DuplicateError(stmt.name))
            /\ UNCHANGED <<symbols, decl_symbol>>
       ELSE /\ symbols' = Append(symbols, VariableSymbol(stmt.name, get_int32_type))
            /\ decl_symbol' = Assign(decl_symbol, Here, Len(symbols) + 1)
            /\ scope_stack' = [pushed EXCEPT ![Len(pushed)] =
                 declare(@, stmt.name, Len(symbols) + 1)]
            /\ Continue(VisitFrames(Here, <<3>>) \o <<Frame("pop", Here)>>)
            /\ UNCHANGED <<pc, error>>
  /\ UNCHANGED <<lexer, consumer, source_file, program, program_scope, struct_types, idx, expr_type,
                 expr_symbol, member_symbol, node_type, member_type>>

VisitReturn ==
  /\ Visiting("ReturnStmt")
  /\ Continue(<<>>)
  /\ UnchangedByStmt /\ UNCHANGED scope_stack

\* ScopeGuard's destructor: pop_scope.
PopScope ==
  /\ pc = "visit" /\ tasks # <<>> /\ Head(tasks).op = "pop"
  /\ IF Len(scope_stack) <= 1
       THEN Throw(Err("InternalInconsistency", "", <<"Cannot pop global scope">>))
       ELSE /\ scope_stack' = Front(scope_stack)
            /\ Continue(<<>>)
            /\ UNCHANGED <<pc, error>>
  /\ UNCHANGED <<lexer, consumer, source_file, program, program_scope, symbols, struct_types, idx, annotations>>

(***************************************************************************)
(* Declarations.                                                           *)
(***************************************************************************)
\* The loop over decl.params of visit(FunctionDecl&), from parameter i on, up
\* to the first throw.  st holds what the loop changes: the function's scope,
\* the symbols, and the slots Param::type and Param::symbol.
RECURSIVE DeclareParams(_, _, _, _, _)
DeclareParams(path, params, i, outer, st) ==
  IF i > Len(params) THEN st
  ELSE LET key == path \o <<i>>
           r == resolve_type(Current(st.member_type, key, params[i].type),
                             <<st.scope>> \o outer, st.symbols)
           id == Len(st.symbols) + 1
       IN
       IF ~r.ok THEN [st EXCEPT !.err = r.err]
       ELSE DeclareParams(path, params, i + 1, outer,
              [scope |-> declare(st.scope, params[i].name, id),
               symbols |-> Append(st.symbols, VariableSymbol(params[i].name, r.type)),
               member_type |-> Assign(st.member_type, key, r.type),
               member_symbol |-> Assign(st.member_symbol, key, id),
               err |-> NoError])

VisitFunctionDecl ==
  /\ Visiting("FunctionDecl")
  /\ LET decl == NodeAt(Here)
         outer == ChainOf(scope_stack, program_scope)
         st == DeclareParams(Here, decl.members, 1, outer,
                 [scope |-> EmptyScope, symbols |-> symbols,
                  member_type |-> member_type, member_symbol |-> member_symbol,
                  err |-> NoError])
         ret == resolve_type(Current(node_type, Here, decl.ty),
                             <<st.scope>> \o outer, st.symbols)
     IN
     /\ symbols' = st.symbols
     /\ member_type' = st.member_type
     /\ member_symbol' = st.member_symbol
     /\ IF st.err # NoError
          THEN Throw(st.err) /\ UNCHANGED node_type
        ELSE IF ~ret.ok
          THEN Throw(ret.err) /\ UNCHANGED node_type
        ELSE /\ node_type' = Assign(node_type, Here, ret.type)
             /\ scope_stack' = Append(scope_stack, st.scope)
             /\ Continue(VisitFrames(Here, <<1>>) \o <<Frame("pop", Here)>>)
             /\ UNCHANGED <<pc, error>>
  /\ UNCHANGED <<lexer, consumer, source_file, program, program_scope, struct_types, idx, expr_type,
                 expr_symbol, decl_symbol>>

\* The loop over decl.fields of visit(StructDecl&): field.type =
\* resolve_type(field.type), up to the first throw.
RECURSIVE ResolveFields(_, _, _, _, _)
ResolveFields(path, fields, i, chain, st) ==
  IF i > Len(fields) THEN st
  ELSE LET key == path \o <<i>>
           r == resolve_type(Current(st.member_type, key, fields[i].type),
                             chain, symbols)
       IN
       IF ~r.ok THEN [st EXCEPT !.err = r.err]
       ELSE ResolveFields(path, fields, i + 1, chain,
              [member_type |-> Assign(st.member_type, key, r.type), err |-> NoError])

VisitStructDecl ==
  /\ Visiting("StructDecl")
  /\ LET st == ResolveFields(Here, NodeAt(Here).members, 1,
                             ChainOf(scope_stack, program_scope),
                             [member_type |-> member_type, err |-> NoError])
     IN
     /\ member_type' = st.member_type
     /\ IF st.err # NoError
          THEN Throw(st.err)
          ELSE Continue(<<>>) /\ UNCHANGED <<scope_stack, pc, error>>
  /\ UNCHANGED <<lexer, consumer, source_file, program, program_scope, symbols, struct_types, idx, expr_type,
                 expr_symbol, decl_symbol, member_symbol, node_type>>

\* visit(GlobalDecl&) that also declares a Variable symbol for the global.
VisitGlobalDecl_Declared ==
  /\ Visiting("GlobalDecl")
  /\ LET r == resolve_type(Current(node_type, Here, NodeAt(Here).ty),
                           ChainOf(scope_stack, program_scope), symbols)
     IN
     IF r.ok
       THEN /\ node_type' = Assign(node_type, Here, r.type)
            /\ symbols' = Append(symbols, VariableSymbol(NodeAt(Here).name, r.type))
            /\ scope_stack' = [scope_stack EXCEPT ![Len(scope_stack)] =
                 declare(@, NodeAt(Here).name, Len(symbols) + 1)]
            /\ Continue(<<>>)
            /\ UNCHANGED <<pc, error>>
       ELSE /\ Throw(r.err)
            /\ UNCHANGED <<node_type, symbols>>
  /\ UNCHANGED <<lexer, consumer, source_file, program, program_scope, struct_types, idx,
                 expr_type, expr_symbol, decl_symbol, member_symbol, member_type>>

VisitGlobalDecl ==
  /\ Visiting("GlobalDecl")
  /\ LET r == resolve_type(Current(node_type, Here, NodeAt(Here).ty),
                           ChainOf(scope_stack, program_scope), symbols)
     IN
     IF r.ok
       THEN /\ node_type' = Assign(node_type, Here, r.type)
            /\ Continue(<<>>)
            /\ UNCHANGED <<scope_stack, pc, error>>
       ELSE /\ Throw(r.err)
            /\ UNCHANGED node_type
  /\ UNCHANGED <<lexer, consumer, source_file, program, program_scope, symbols, struct_types, idx, expr_type,
                 expr_symbol, decl_symbol, member_symbol, member_type>>

(***************************************************************************)
(* The pass.                                                               *)
(***************************************************************************)
Next ==
  \/ DeclareStructSymbol
  \/ FillStructFields
  \/ DeclareFunction
  \/ VisitNextDeclaration
  \/ VisitIntegerLiteral
  \/ VisitFloatLiteral
  \/ VisitBoolLiteral
  \/ VisitStringLiteral
  \/ VisitVariable
  \/ VisitBinaryOp
  \/ VisitUnaryOp
  \/ VisitCall
  \/ VisitIndex
  \/ VisitFieldAccess
  \/ FinishFieldAccess
  \/ VisitCast
  \/ VisitExprStmt
  \/ VisitLet
  \/ DeclareLet
  \/ VisitAssign
  \/ VisitBlock
  \/ VisitIf
  \/ VisitWhile
  \/ VisitFor
  \/ VisitReturn
  \/ PopScope
  \/ VisitFunctionDecl
  \/ VisitStructDecl
  \/ VisitGlobalDecl

Spec == Init /\ [][Next]_vars

(***************************************************************************)
(* Lexical scoping, read off the program text: the binding a reference to  *)
(* name n at path p sees.  Declaring statements are children of blocks, so *)
(* the candidates are, innermost first: a Let earlier in an enclosing      *)
(* block, the variable of an enclosing For, a parameter of the function.   *)
(***************************************************************************)
NoBinder == [kind |-> "none", key |-> <<>>]

EarlierLets(block, c, n) ==
  {j \in 1..(c - 1) : block.kids[j].kind = "LetStmt" /\ block.kids[j].name = n}

ParamsNamed(decl, n) == {i \in DOMAIN decl.members : decl.members[i].name = n}

Min(S) == CHOOSE x \in S : \A y \in S : x <= y

RECURSIVE Binder(_, _, _)
Binder(p, k, n) ==
  IF k = 0 THEN NoBinder
  ELSE LET q == SubSeq(p, 1, k)
           node == NodeAt(q)
           c == p[k + 1]
       IN
       IF node.kind = "BlockStmt" /\ EarlierLets(node, c, n) # {}
         THEN [kind |-> "let", key |-> q \o <<Min(EarlierLets(node, c, n))>>]
       ELSE IF node.kind = "ForStmt" /\ node.name = n /\ c = 3
         THEN [kind |-> "for", key |-> q]
       ELSE IF node.kind = "FunctionDecl" /\ ParamsNamed(node, n) # {}
         THEN [kind |-> "param", key |-> q \o <<Min(ParamsNamed(node, n))>>]
       ELSE Binder(p, k - 1, n)

BinderOf(p) == Binder(p, Len(p) - 1, NodeAt(p).name)

DeclsOfKind(kind) == {d \in DOMAIN program : program[d].kind = kind}

NamesOfKind(kind) == {program[d].name : d \in DeclsOfKind(kind)}

\* The Function symbol declare_functions makes for declaration d.
HoistedSymbol(d) ==
  FunctionSymbol(program[d].name,
    FunctionType([i \in DOMAIN program[d].members |-> program[d].members[i].type],
                 program[d].ty))

(***************************************************************************)
(* C1.  A variable reference (a call's callee included) in a function body *)
(* that names a function declared anywhere at top level, before or after   *)
(* the referencing function, does not fail with UnresolvedIdentifier: its  *)
(* symbol slot is set; and when no parameter, local or struct of that name *)
(* is in scope, the symbol cached is the Function symbol hoisted for a     *)
(* declaration of that name.                                               *)
(***************************************************************************)
C1_ForwardReference ==
  [][ (Visiting("VariableExpr") /\ NodeAt(Here).name \in NamesOfKind("FunctionDecl"))
      => /\ error'.kind # "UnresolvedIdentifier"
         /\ pc' # "failed"
         /\ IsSet(expr_symbol', Here)
         /\ (BinderOf(Here).kind = "none"
             /\ NodeAt(Here).name \notin NamesOfKind("StructDecl"))
            => \E d \in DeclsOfKind("FunctionDecl") :
                 /\ program[d].name = NodeAt(Here).name
                 /\ symbols'[Value(expr_symbol', Here)] = HoistedSymbol(d)
                 /\ IsSet(expr_type', Here)
                 /\ Value(expr_type', Here) = HoistedSymbol(d).type ]_vars

\* A reference to g, in a function declared before every declaration of g,
\* has been resolved to a Function symbol.
C1_Witness ==
  \E p \in DOMAIN expr_symbol :
    /\ NodeAt(p).name = "g"
    /\ symbols[Value(expr_symbol, p)].kind = "Function"
    /\ \A d \in DeclsOfKind("FunctionDecl") : program[d].name = "g" => d > Head(p)

(***************************************************************************)
(* C2.  For distinctly named struct declarations whose fields name only    *)
(* primitives or declared structs (in any reference cycle, a struct naming *)
(* itself included), declare_structs runs to its end without throwing, and *)
(* afterwards each struct's canonical Struct type has exactly the fields   *)
(* of its declaration, in declaration order, a field declared by a struct  *)
(* name holding that struct's canonical Struct type.                       *)
(***************************************************************************)
NamedBy(type) ==
  IF type.kind = "TypeName" THEN {type.name}
  ELSE IF type.kind = "Pointer" /\ type.pointee.kind = "TypeName"
    THEN {type.pointee.name}
  ELSE {}

WellFormedStructs ==
  /\ \A d, e \in DeclsOfKind("StructDecl") : program[d].name = program[e].name => d = e
  /\ \A d \in DeclsOfKind("StructDecl") : \A i \in DOMAIN program[d].members :
       NamedBy(program[d].members[i].type) \subseteq NamesOfKind("StructDecl")

\* The Struct type the name is bound to in the Resolver's first scope.
CanonicalType(n) == symbols[scope_stack[1][n][1]].type

DeclaredFields(d) ==
  [i \in DOMAIN program[d].members |->
     Member(program[d].members[i].name,
            IF program[d].members[i].type.kind = "TypeName"
              THEN CanonicalType(program[d].members[i].type.name)
              ELSE program[d].members[i].type)]

Hoisting == {"declare_structs", "fill_structs"}

C2_StructHoisting ==
  /\ [](WellFormedStructs /\ pc \notin Hoisting
          => \A d \in DeclsOfKind("StructDecl") :
               /\ CanonicalType(program[d].name).kind = "Struct"
               /\ struct_types[CanonicalType(program[d].name).id].name = program[d].name
               /\ struct_types[CanonicalType(program[d].name).id].fields
                    = DeclaredFields(d))
  /\ [][ WellFormedStructs /\ pc \in Hoisting
          => /\ pc' # "failed"
             /\ error' = NoError
             /\ (idx' = idx + 1 \/ pc' # pc) ]_vars

\* Two structs that contain each other, or one that contains itself and
\* another, hoisted and resolved to the end.
C2_Witness ==
  /\ WellFormedStructs
  /\ pc = "done"
  /\ Len(program) = 2
  /\ \A d \in {1, 2} :
       /\ program[d].kind = "StructDecl"
       /\ \E i \in DOMAIN program[d].members :
            program[d].members[i].type = TypeName(program[3 - d].name)

(***************************************************************************)
(* Lets.  The Let being resolved: its own frame is the next step, or the   *)
(* steps before it are all of its initializer's expressions.               *)
(***************************************************************************)
RECURSIVE InnermostLet(_)
InnermostLet(ts) ==
  IF ts = <<>> THEN <<>>
  ELSE IF Head(ts).op = "let" THEN Head(ts).path
  ELSE IF Head(ts).op = "field"
          \/ (Head(ts).op = "visit" /\ NodeAt(Head(ts).path).kind \in ExprKinds)
    THEN InnermostLet(Tail(ts))
  ELSE <<>>

\* The Let at path p stands in a block after a Let of the same name: its
\* name already has a declaration in the current scope.
DuplicateLet(p) ==
  /\ Len(p) > 1
  /\ NodeAt(Front(p)).kind = "BlockStmt"
  /\ EarlierLets(NodeAt(Front(p)), Last(p), NodeAt(p).name) # {}

\* The declared type of the Let at p is no type name, or a name that is bound
\* where the Let stands.
DeclaredTypeBound(p) ==
  LET t == NodeAt(p).ty IN
  t.kind = "TypeName"
    => \/ t.name \in NamesOfKind("StructDecl") \cup NamesOfKind("FunctionDecl")
       \/ Binder(p, Len(p) - 1, t.name).kind # "none"

(***************************************************************************)
(* C3, as claimed.  A Let whose name already has a declaration in the      *)
(* current scope fails the pass with DuplicateLocalDeclaration naming that *)
(* variable; no new symbol is added and the Let's symbol slot stays unset. *)
(***************************************************************************)
C3_AsClaimed ==
  [][ LET p == InnermostLet(tasks) IN
      (/\ pc = "visit"
       /\ p # <<>>
       /\ DuplicateLet(p)
       /\ (pc' # "visit" \/ Head(tasks).op = "let"))
      => /\ pc' = "failed"
         /\ error' = DuplicateError(NodeAt(p).name)
         /\ symbols' = symbols
         /\ ~IsSet(decl_symbol', p) ]_vars

(***************************************************************************)
(* C3, amended.  A Let whose name already has a declaration in the current *)
(* scope fails the pass: with DuplicateLocalDeclaration naming that        *)
(* variable when its initializer and its declared type have resolved, or   *)
(* else with the failure of the initializer or of the declared type, which *)
(* are resolved first.  In each case no new symbol is added and the Let's  *)
(* symbol slot stays unset.                                                *)
(***************************************************************************)
C3_DuplicateLet ==
  [][ LET p == InnermostLet(tasks) IN
      (/\ pc = "visit"
       /\ p # <<>>
       /\ DuplicateLet(p)
       /\ (pc' # "visit" \/ Head(tasks).op = "let"))
      => /\ pc' = "failed"
         /\ symbols' = symbols
         /\ ~IsSet(decl_symbol', p)
         /\ IF Head(tasks).op = "let"
              THEN IF DeclaredTypeBound(p)
                     THEN error' = DuplicateError(NodeAt(p).name)
                     ELSE error'.kind = "UnresolvedTypeName"
              ELSE error'.kind \in {"UnresolvedIdentifier", "InvalidFieldAccess"} ]_vars

\* The pass has failed on a second  let x  in the block of the first.
C3_Witness ==
  /\ pc = "failed"
  /\ error = DuplicateError("x")
  /\ Len(program) = 3 /\ program[3].name = "main"
  /\ \E i, j \in DOMAIN program[3].kids[1].kids :
       /\ i < j
       /\ program[3].kids[1].kids[i].kind = "LetStmt"
       /\ program[3].kids[1].kids[j].kind = "LetStmt"
       /\ program[3].kids[1].kids[i].name = "x"
       /\ program[3].kids[1].kids[j].name = "x"
       /\ IsSet(decl_symbol, <<3, 1, i>>)
       /\ ~IsSet(decl_symbol, <<3, 1, j>>)

(***************************************************************************)
(* C4.  A Let in a nested inner block that reuses a name bound in an       *)
(* enclosing block succeeds; a variable reference resolves to the symbol   *)
(* of the binding that lexically encloses it: in the inner block after     *)
(* that Let to the inner symbol, in the outer block after the inner block  *)
(* has ended to the outer symbol again.                                    *)
(***************************************************************************)
SymbolOfBinder(b) ==
  IF b.kind = "param" THEN Value(member_symbol, b.key) ELSE Value(decl_symbol, b.key)

C4_Shadowing ==
  /\ [](\A p \in DOMAIN expr_symbol :
          BinderOf(p).kind # "none"
            => /\ IsSet(IF BinderOf(p).kind = "param" THEN member_symbol
                        ELSE decl_symbol, BinderOf(p).key)
               /\ Value(expr_symbol, p) = SymbolOfBinder(BinderOf(p))
               /\ symbols[Value(expr_symbol, p)].kind = "Variable"
               /\ symbols[Value(expr_symbol, p)].name = NodeAt(p).name)
  /\ [][ (/\ pc = "visit" /\ tasks # <<>> /\ Head(tasks).op = "let"
          /\ NodeAt(Front(Here)).kind = "BlockStmt"
          /\ ~DuplicateLet(Here)
          /\ BinderOf(Here).kind # "none"
          /\ NodeAt(Here).ty.kind # "Null"
          /\ DeclaredTypeBound(Here))
         => /\ pc' = "visit"
            /\ error' = NoError
            /\ Len(symbols') = Len(symbols) + 1
            /\ IsSet(decl_symbol', Here)
            /\ Value(decl_symbol', Here) = Len(symbols')
            /\ Value(decl_symbol', Here) # SymbolOfBinder(BinderOf(Here)) ]_vars

\* let x; { let x; x; } x;  resolved to the end: the inner reference has the
\* inner Let's symbol, the reference after the block the outer Let's.
C4_Witness ==
  /\ pc = "done"
  /\ Len(program) = 3 /\ program[3].name = "main"
  /\ \E i, j, k \in DOMAIN program[3].kids[1].kids :
       /\ i < j /\ j < k
       /\ IsSet(decl_symbol, <<3, 1, i>>)
       /\ IsSet(decl_symbol, <<3, 1, j, 1>>)
       /\ IsSet(expr_symbol, <<3, 1, j, 2, 1>>)
       /\ IsSet(expr_symbol, <<3, 1, k, 1>>)
       /\ NodeAt(<<3, 1, i>>).name = "x"
       /\ NodeAt(<<3, 1, k, 1>>).kind = "VariableExpr"
       /\ Value(expr_symbol, <<3, 1, j, 2, 1>>) = Value(decl_symbol, <<3, 1, j, 1>>)
       /\ Value(expr_symbol, <<3, 1, k, 1>>) = Value(decl_symbol, <<3, 1, i>>)
       /\ Value(decl_symbol, <<3, 1, i>>) # Value(decl_symbol, <<3, 1, j, 1>>)

(***************************************************************************)
(* C5.  A visited variable reference whose name has no declaration in the  *)
(* current scope or in any enclosing scope up to the root fails the pass   *)
(* with UnresolvedIdentifier, the message naming exactly that name; such a *)
(* reference never completes with its symbol slot set.                     *)
(***************************************************************************)
\* No binding encloses the reference at p and no struct or function is
\* hoisted under its name.
Undeclared(p) ==
  /\ BinderOf(p).kind = "none"
  /\ NodeAt(p).name \notin NamesOfKind("StructDecl") \cup NamesOfKind("FunctionDecl")

C5_UnresolvedIdentifier ==
  /\ [](\A p \in DOMAIN expr_symbol : ~Undeclared(p))
  /\ [][ (Visiting("VariableExpr") /\ Undeclared(Here))
         => /\ pc' = "failed"
            /\ error'.kind = "UnresolvedIdentifier"
            /\ error'.msg = <<"Unknown identifier: ", NodeAt(Here).name>>
            /\ expr_symbol' = expr_symbol
            /\ expr_type' = expr_type ]_vars

\* The pass has failed on a reference to x in a body without any x.
C5_Witness ==
  /\ pc = "failed"
  /\ error.kind = "UnresolvedIdentifier"
  /\ error.msg[2] = "x"
  /\ Len(program) = 3 /\ program[3].name = "main"
  /\ \A i \in DOMAIN program[3].kids[1].kids : ~IsSet(decl_symbol, <<3, 1, i>>)

(***************************************************************************)
(* Field access as a function of the object's type.  FieldSpec starts the  *)
(* walk of  fn m(o) { o.f; }  where visit(FieldAccessExpr&) has visited    *)
(* its object, with the object's resolved type drawn from every shape of   *)
(* type over a heap of two Struct types, and runs the pass to its end.     *)
(***************************************************************************)
FieldNames == {"a", "n", "q", "zz"}

StructHeaps ==
  {<<[name |-> "P", fields |-> <<Member("a", IntT),
                                 Member("n", PointerType(StructType(1))),
                                 Member("q", StructType(2))>>],
     [name |-> "Q", fields |-> <<Member("a", get_bool_type)>>]>>,
   <<[name |-> "P", fields |-> <<>>],
     [name |-> "Q", fields |-> <<Member("q", IntT), Member("a", StructType(1)),
                                 Member("a", IntT)>>]>>}

BaseTypes == {StructType(1), StructType(2), IntT, TypeName("P")}

ObjectTypes ==
  BaseTypes \cup {PointerType(t) : t \in BaseTypes}
            \cup {PointerType(PointerType(t)) : t \in BaseTypes}

FieldProgram(t, f) ==
  <<FunctionDecl("m", <<Member("o", t)>>, IntT,
      BlockStmt(<<ExprStmt(FieldAccessExpr(VariableExpr("o"), f))>>))>>

AccessPath == <<1, 1, 1, 1>>

FieldInit ==
  \E t \in ObjectTypes, f \in FieldNames :
    /\ program = FieldProgram(t, f)
    /\ NoLexer
    /\ NoConsumer
    /\ NoSourceFile
    /\ struct_types \in StructHeaps
    /\ symbols = <<StructSymbol("P", StructType(1)), StructSymbol("Q", StructType(2)),
                   HoistedSymbol(1), VariableSymbol("o", t)>>
    /\ program_scope = EmptyScope
    /\ scope_stack = <<("P" :> <<1>>) @@ ("Q" :> <<2>>) @@ ("m" :> <<3>>),
                       ("o" :> <<4>>), EmptyScope>>
    /\ pc = "visit"
    /\ idx = 2
    /\ tasks = <<Frame("field", AccessPath), Frame("pop", <<1, 1>>), Frame("pop", <<1>>)>>
    /\ expr_type = (AccessPath \o <<1>>) :> <<t>>
    /\ expr_symbol = (AccessPath \o <<1>>) :> <<4>>
    /\ decl_symbol = NoSlots
    /\ member_symbol = <<1, 1>> :> <<4>>
    /\ node_type = <<1>> :> <<IntT>>
    /\ member_type = <<1, 1>> :> <<t>>
    /\ error = NoError

FieldNext == FinishFieldAccess \/ PopScope \/ VisitNextDeclaration

FieldSpec == FieldInit /\ [][FieldNext]_vars

(***************************************************************************)
(* C6.  Field access on an object whose resolved type is a pointer to a    *)
(* Struct type has the outcome of field access on an object of that Struct *)
(* type itself: the type of the struct's first field of that name, or the  *)
(* UnknownField failure.  One pointer level is unwrapped and no more: on a *)
(* pointer to a pointer to a struct it fails with NonStructBase.           *)
(***************************************************************************)
FieldsNamed(id, f) ==
  {i \in DOMAIN struct_types[id].fields : struct_types[id].fields[i].name = f}

\* The outcome of the field access on a struct, read off the struct's fields.
DirectOutcome(id, f) ==
  IF FieldsNamed(id, f) # {}
    THEN /\ pc # "failed"
         /\ error = NoError
         /\ IsSet(expr_type, AccessPath)
         /\ expr_type[AccessPath] = <<struct_types[id].fields[Min(FieldsNamed(id, f))].type>>
    ELSE /\ pc = "failed"
         /\ error = Err("InvalidFieldAccess", "UnknownField",
                        <<"unknown field '", f, "' in struct ", struct_types[id].name>>)
         /\ ~IsSet(expr_type, AccessPath)

AccessDone == pc = "failed" \/ tasks = <<>> \/ Head(tasks).op # "field"

StructBehind(t) ==
  IF t.kind = "Struct" THEN t.id
  ELSE IF t.kind = "Pointer" /\ t.pointee.kind = "Struct" THEN t.pointee.id
  ELSE 0

C7_InvalidFieldAccess ==
  [][ (/\ pc = "visit" /\ tasks # <<>> /\ Head(tasks).op = "field"
       /\ IsSet(expr_type, Here \o <<1>>))
      => LET t == Value(expr_type, Here \o <<1>>)
             f == NodeAt(Here).name
         IN
         /\ StructBehind(t) = 0
              => /\ pc' = "failed"
                 /\ error'.kind = "InvalidFieldAccess"
                 /\ error'.detail = "NonStructBase"
                 /\ ~IsSet(expr_type', Here)
         /\ (StructBehind(t) # 0 /\ FieldsNamed(StructBehind(t), f) = {})
              => /\ pc' = "failed"
                 /\ error'.kind = "InvalidFieldAccess"
                 /\ error'.detail = "UnknownField"
                 /\ error'.msg[2] = f
                 /\ ~IsSet(expr_type', Here) ]_vars

\* The pass has failed on x.zz, x being of the struct type S, which has no zz.
C7_Witness ==
  /\ pc = "failed"
  /\ error.detail = "UnknownField"
  /\ error.msg[2] = "zz"
  /\ \E p \in DOMAIN expr_type :
       /\ Value(expr_type, p).kind = "Struct"
       /\ NodeAt(Front(p)).kind = "FieldAccessExpr"
       /\ ~IsSet(expr_type, Front(p))

(***************************************************************************)
(* C8.  In every state reached during and after resolve, no two Struct     *)
(* type objects have the same name: each struct name has exactly one       *)
(* Struct type object, and every type slot that resolve_type has resolved  *)
(* to a Struct type holds the one object of its name.                      *)
(***************************************************************************)
StructTypesNamed(n) == {i \in DOMAIN struct_types : struct_types[i].name = n}

ResolvedTypes ==
  UNION {Range(node_type[k]) : k \in DOMAIN node_type}
    \cup UNION {Range(member_type[k]) : k \in DOMAIN member_type}
    \cup UNION {{struct_types[i].fields[j].type : j \in DOMAIN struct_types[i].fields} :
                  i \in DOMAIN struct_types}

C8_OneStructTypePerName ==
  /\ \A i, j \in DOMAIN struct_types :
       struct_types[i].name = struct_types[j].name => i = j
  /\ \A t \in ResolvedTypes :
       t.kind = "Struct" => StructTypesNamed(struct_types[t.id].name) = {t.id}

(***************************************************************************)
(* C9.  For  struct A { next: *B }  and  struct B { next: *A }, in either  *)
(* declaration order, resolve succeeds, and afterwards the pointee of A's  *)
(* next field is B's canonical Struct type and the pointee of B's next     *)
(* field is A's canonical Struct type.                                     *)
(***************************************************************************)
NextPointee(n) == struct_types[CanonicalType(n).id].fields[1].type.pointee

C9_MutualPointers ==
  program \in CyclePrograms
    => /\ pc \notin {"failed", "crashed"}
       /\ pc = "done" => /\ NextPointee("A") = CanonicalType("B")
                         /\ NextPointee("B") = CanonicalType("A")

(***************************************************************************)
(* C10.  For  struct Point { x: int, y: int }  fn make() -> Point          *)
(* fn main() -> int { let p = make(); return p.x; }, after resolve the     *)
(* symbol declared for p has the canonical Point type, the expression p.x  *)
(* has type int, and exactly one Struct symbol named Point exists in the   *)
(* global scope.                                                           *)
(***************************************************************************)
LetP == <<3, 1, 1>>

ExprPX == <<3, 1, 2, 1>>

C10_PointScenario ==
  (program = PointProgram /\ pc = "done")
    => /\ IsSet(decl_symbol, LetP)
       /\ symbols[Value(decl_symbol, LetP)].type = CanonicalType("Point")
       /\ IsSet(expr_type, ExprPX)
       /\ Value(expr_type, ExprPX) = IntT
       /\ Cardinality({i \in Range(scope_stack[1]["Point"]) :
                         symbols[i].kind = "Struct"}) = 1

(***************************************************************************)
(* C11.  Whatever the current scope holds, resolve_type hands back every   *)
(* type that is not an UnresolvedName (TypeName) as it came, the same      *)
(* object, without failing; so resolving the result of a successful        *)
(* resolve_type again changes nothing, and resolving a canonical Struct    *)
(* type gives that same Struct type object.                                *)
(***************************************************************************)
\* The scope chain resolve_type looks names up in.
CurrentChain == ChainOf(scope_stack, program_scope)

NamesInScope == UNION {DOMAIN CurrentChain[i] : i \in DOMAIN CurrentChain}

\* Types to resolve: primitives, a placeholder for every name in scope and for
\* a name that is not, every Struct type object, a function signature, and
\* the pointers to these.
PlainTypes ==
  {IntT, get_bool_type, FunctionType(<<TypeName("S")>>, IntT)}
    \cup {TypeName(n) : n \in NamesInScope \cup {"U"}}
    \cup {StructType(i) : i \in DOMAIN struct_types}

TypesToResolve == PlainTypes \cup {PointerType(t) : t \in PlainTypes}

Resolved(t) == resolve_type(t, CurrentChain, symbols)

C11_ResolveTypeIdempotent ==
  \A t \in TypesToResolve :
    /\ t.kind # "TypeName" => Resolved(t) = [ok |-> TRUE, type |-> t, err |-> NoError]
    /\ Resolved(t).ok
         => Resolved(Resolved(t).type) = [ok |-> TRUE, type |-> Resolved(t).type, err |-> NoError]

\* Inside a function body where the name S resolves to its Struct type, a
\* name bound to a variable resolves to its own placeholder, and a pointer to
\* the placeholder S is in the set of types resolved.
C11_Witness ==
  /\ pc = "visit"
  /\ Len(scope_stack) >= 3
  /\ TypeName("S") \in TypesToResolve
  /\ Resolved(TypeName("S")).type.kind = "Struct"
  /\ Resolved(Resolved(TypeName("S")).type).type = Resolved(TypeName("S")).type
  /\ \E n \in NamesInScope :
       /\ lookup_first(CurrentChain, n).found
       /\ symbols[lookup_first(CurrentChain, n).sym].kind = "Variable"
       /\ Resolved(TypeName(n)) = [ok |-> TRUE, type |-> TypeName(n), err |-> NoError]
  /\ ~Resolved(TypeName("U")).ok

(***************************************************************************)
(* C12.  The first failure ends the pass: from a state in which resolve    *)
(* has thrown, nothing changes any more -- no node is visited, no          *)
(* annotation slot is written, no symbol or Struct type is made, and the   *)
(* error stays the one that was thrown; the walk has no work left.         *)
(***************************************************************************)
C12_FirstFailureAborts ==
  /\ [](error # NoError => pc = "failed" /\ tasks = <<>>)
  /\ [][error # NoError => UNCHANGED vars]_vars
  /\ [][error' # error => error = NoError]_vars

\* main's first statement has failed on an unknown identifier; the Let after
\* it has not been visited.
C12_Witness ==
  /\ pc = "failed"
  /\ error.kind = "UnresolvedIdentifier"
  /\ Len(program) = 3
  /\ program[3].name = "main"
  /\ Len(program[3].kids[1].kids) >= 2
  /\ NodeAt(<<3, 1, 2>>).kind = "LetStmt"
  /\ ~IsSet(decl_symbol, <<3, 1, 2>>)
  /\ ~IsSet(expr_type, <<3, 1, 2, 1>>)

(***************************************************************************)
(* C13.  After resolve has returned successfully every annotation slot of  *)
(* the tree is filled: every expression has a resolved type, every         *)
(* variable reference a resolved symbol, and every Let, parameter and For  *)
(* binding a declared symbol.                                              *)
(***************************************************************************)
RECURSIVE PathsUnder(_, _)
PathsUnder(node, path) ==
  IF node.kind = "Null" THEN {}
  ELSE {path} \cup UNION {PathsUnder(node.kids[i], path \o <<i>>) : i \in DOMAIN node.kids}

\* The paths of all nodes of the program.
AllPaths == UNION {PathsUnder(program[d], <<d>>) : d \in DOMAIN program}

SlotsFilled(p) ==
  LET node == NodeAt(p) IN
  /\ node.kind \in ExprKinds => IsSet(expr_type, p)
  /\ node.kind = "VariableExpr" => IsSet(expr_symbol, p)
  /\ node.kind \in {"LetStmt", "ForStmt"} => IsSet(decl_symbol, p)
  /\ node.kind = "FunctionDecl"
       => \A i \in DOMAIN node.members : IsSet(member_symbol, p \o <<i>>)

C13_EverySlotFilled == pc = "done" => \A p \in AllPaths : SlotsFilled(p)

(***************************************************************************)
(* C14.  Each annotation slot -- an expression's resolved type, a variable *)
(* reference's resolved symbol, a Let, For or parameter binding's declared *)
(* symbol -- is assigned at most once during resolve.  (The nodes of the   *)
(* tree are told apart by their paths, so no node is shared.)              *)
(***************************************************************************)
WrittenOnce(slots) == \A k \in DOMAIN slots : Len(slots[k]) = 1

C14_WriteOnce ==
  /\ WrittenOnce(expr_type)
  /\ WrittenOnce(expr_symbol)
  /\ WrittenOnce(decl_symbol)
  /\ WrittenOnce(member_symbol)

\* resolve has succeeded on a program in which slots of all four sorts were
\* assigned.
C14_Witness ==
  /\ pc = "done"
  /\ DOMAIN expr_type # {}
  /\ DOMAIN expr_symbol # {}
  /\ DOMAIN decl_symbol # {}
  /\ DOMAIN member_symbol # {}

(***************************************************************************)
(* C15.  A function declaration with two parameters of the same name is    *)
(* rejected with DuplicateLocalDeclaration, as a duplicate Let is: resolve *)
(* does not succeed on it, and no scope ever holds two Variable symbols of *)
(* the same name.                                                          *)
(***************************************************************************)
DuplicateParams(d) ==
  /\ program[d].kind = "FunctionDecl"
  /\ \E i, j \in DOMAIN program[d].members :
       i # j /\ program[d].members[i].name = program[d].members[j].name

VariablesNamed(scope, n) ==
  {i \in DOMAIN scope[n] : symbols[scope[n][i]].kind = "Variable"}

C15_DuplicateParamsRejected ==
  /\ \A k \in DOMAIN scope_stack : \A n \in DOMAIN scope_stack[k] :
       Cardinality(VariablesNamed(scope_stack[k], n)) <= 1
  /\ (\E d \in DOMAIN program : DuplicateParams(d)) => pc # "done"
  /\ (pc = "failed" /\ \E d \in DOMAIN program : DuplicateParams(d))
       => error.kind = "DuplicateLocalDeclaration"

(***************************************************************************)
(* C16.  After a successful resolve the Program's own scope, program.scope *)
(* -- the root of the scope chain -- holds a Struct symbol for every       *)
(* struct declaration and a Function symbol for every function             *)
(* declaration.                                                            *)
(***************************************************************************)
Holds(scope, name, kind) ==
  /\ name \in DOMAIN scope
  /\ \E i \in DOMAIN scope[name] :
       symbols[scope[name][i]].kind = kind /\ symbols[scope[name][i]].name = name

C16_GlobalScopePopulated ==
  pc = "done" =>
    /\ \A d \in DeclsOfKind("StructDecl") : Holds(program_scope, program[d].name, "Struct")
    /\ \A d \in DeclsOfKind("FunctionDecl") : Holds(program_scope, program[d].name, "Function")

(***************************************************************************)
(* Scope on its own.  ScopeSpec builds a chain of scopes -- program_scope  *)
(* the root, scope_stack its descendants, each the parent of the next --   *)
(* by Scope(parent) and declares symbols into any scope of the chain.      *)
(***************************************************************************)
MaxDeclares == 4

MaxScopes == 2

ScopeNames == {"a", "b"}

ScopeInit ==
  /\ program = <<>>
  /\ NoLexer
  /\ NoConsumer
  /\ NoSourceFile
  /\ program_scope = EmptyScope
  /\ scope_stack = <<>>
  /\ symbols = <<>>
  /\ struct_types = <<>>
  /\ pc = "scopes"
  /\ idx = 1
  /\ tasks = <<>>
  /\ expr_type = NoSlots
  /\ expr_symbol = NoSlots
  /\ decl_symbol = NoSlots
  /\ member_symbol = NoSlots
  /\ node_type = NoSlots
  /\ member_type = NoSlots
  /\ error = NoError

\* Scope(parent), parent being the innermost scope so far.
NewScope ==
  /\ pc = "scopes"
  /\ Len(scope_stack) < MaxScopes
  /\ scope_stack' = Append(scope_stack, EmptyScope)
  /\ UNCHANGED <<lexer, consumer, source_file, program, program_scope, symbols, struct_types, pc, idx, tasks,
                 annotations, error>>

\* scope->declare(symbol) of a new symbol, scope being number k of the chain
\* (0 the root).
DeclareInScope ==
  /\ pc = "scopes"
  /\ Len(symbols) < MaxDeclares
  /\ \E k \in 0..Len(scope_stack), n \in ScopeNames :
       /\ symbols' = Append(symbols, VariableSymbol(n, IntT))
       /\ IF k = 0
            THEN /\ program_scope' = declare(program_scope, n, Len(symbols) + 1)
                 /\ UNCHANGED scope_stack
            ELSE /\ scope_stack' =
                      [scope_stack EXCEPT ![k] = declare(@, n, Len(symbols) + 1)]
                 /\ UNCHANGED program_scope
  /\ UNCHANGED <<lexer, consumer, source_file, program, struct_types, pc, idx, tasks, annotations, error>>

ScopeNext == NewScope \/ DeclareInScope

ScopeSpec == ScopeInit /\ [][ScopeNext]_vars

(***************************************************************************)
(* C17.  After any declare calls on a chain of scopes: lookup of a name    *)
(* from a scope gives the declaration sequence of the nearest scope (the   *)
(* scope itself, then its parents outward) that has the name, in the order *)
(* of declaration; lookup_first gives the earliest declared symbol of that *)
(* sequence; both find nothing exactly when no scope of the chain has the  *)
(* name; and declare appends, never removing, reordering or replacing what *)
(* was declared.                                                           *)
(***************************************************************************)
\* Scope number k of the chain, as held by the named variables.
ScopeAt(root, stack, k) == IF k = 0 THEN root ELSE stack[k]

\* The scopes from number k outward that have name n.
Having(k, n) == {j \in 0..k : n \in DOMAIN ScopeAt(program_scope, scope_stack, j)}

Max(S) == CHOOSE x \in S : \A y \in S : y <= x

ChainFrom(k) == ChainOf(SubSeq(scope_stack, 1, k), program_scope)

Increasing(seq) == \A i, j \in DOMAIN seq : i < j => seq[i] < seq[j]

IsPrefix(a, b) == Len(a) <= Len(b) /\ SubSeq(b, 1, Len(a)) = a

LookupFindsNearest ==
  \A k \in 0..Len(scope_stack), n \in ScopeNames :
    LET nearest == ScopeAt(program_scope, scope_stack, Max(Having(k, n))) IN
    IF Having(k, n) = {}
      THEN /\ ~lookup(ChainFrom(k), n).found
           /\ ~lookup_first(ChainFrom(k), n).found
      ELSE /\ lookup(ChainFrom(k), n) = [found |-> TRUE, vec |-> nearest[n]]
           /\ Increasing(nearest[n])
           /\ \A i \in DOMAIN nearest[n] : symbols[nearest[n][i]].name = n
           /\ lookup_first(ChainFrom(k), n) = [found |-> TRUE, sym |-> nearest[n][1]]
           /\ \A i \in DOMAIN nearest[n] : nearest[n][1] <= nearest[n][i]

DeclareAppends ==
  \A k \in 0..Len(scope_stack), n \in ScopeNames :
    LET before == ScopeAt(program_scope, scope_stack, k)
        after == ScopeAt(program_scope', scope_stack', k)
    IN /\ n \in DOMAIN before => n \in DOMAIN after /\ IsPrefix(before[n], after[n])
       /\ n \in DOMAIN after => Len(after[n]) <= (IF n \in DOMAIN before
                                                    THEN Len(before[n]) ELSE 0) + 1

C17_ScopeLookup == []LookupFindsNearest /\ [][DeclareAppends]_vars

\* a has been declared twice in the root and once in the innermost of two
\* descendants, b only in the root: from the innermost scope a is found
\* there and b in the root; from the middle scope a is found in the root.
C17_Witness ==
  /\ Len(scope_stack) = 2
  /\ "a" \in DOMAIN program_scope /\ Len(program_scope["a"]) = 2
  /\ "a" \in DOMAIN scope_stack[2]
  /\ "a" \notin DOMAIN scope_stack[1]
  /\ "b" \in DOMAIN program_scope
  /\ lookup(ChainFrom(2), "a").vec = scope_stack[2]["a"]
  /\ lookup(ChainFrom(1), "a").vec = program_scope["a"]
  /\ lookup_first(ChainFrom(2), "b").sym = program_scope["b"][1]

(***************************************************************************)
(* The Lexer (lexer.h, lexer.cpp, token.cpp).  A character is a string of  *)
(* one character, a text a sequence of characters; NUL is the character    *)
(* '\0' that current_ holds at and past the end of the source.  The         *)
(* sources are the texts of at most MaxSource characters of Alphabet:      *)
(* two letters, a digit, blank and newline, the quote and the backslash,   *)
(* the characters of the comment marks and of the two-character operators, *)
(* the dot, and a character no token starts with.                          *)
(***************************************************************************)
MaxSource == 3

NUL == "NUL"

Alphabet ==
  {"a", "e", "1", " ", "\n", "\"", "\\", "/", "*", "=", "!", "<", ">", "&", "|",
   "-", ".", "#"}

TokenDefinition(type, value) == [type |-> type, value |-> value]

Keywords ==
  <<TokenDefinition("FN", <<"f", "n">>),
    TokenDefinition("LET", <<"l", "e", "t">>),
    TokenDefinition("MUT", <<"m", "u", "t">>),
    TokenDefinition("IF", <<"i", "f">>),
    TokenDefinition("ELSE", <<"e", "l", "s", "e">>),
    TokenDefinition("WHILE", <<"w", "h", "i", "l", "e">>),
    TokenDefinition("FOR", <<"f", "o", "r">>),
    TokenDefinition("RETURN", <<"r", "e", "t", "u", "r", "n">>),
    TokenDefinition("STRUCT", <<"s", "t", "r", "u", "c", "t">>),
    TokenDefinition("EXTERN", <<"e", "x", "t", "e", "r", "n">>),
    TokenDefinition("TRUE", <<"t", "r", "u", "e">>),
    TokenDefinition("FALSE", <<"f", "a", "l", "s", "e">>),
    TokenDefinition("INT", <<"i", "n", "t">>),
    TokenDefinition("FLOAT", <<"f", "l", "o", "a", "t">>),
    TokenDefinition("BOOL", <<"b", "o", "o", "l">>),
    TokenDefinition("VOID", <<"v", "o", "i", "d">>),
    TokenDefinition("I8", <<"i", "8">>),
    TokenDefinition("I16", <<"i", "1", "6">>),
    TokenDefinition("I32", <<"i", "3", "2">>),
    TokenDefinition("I64", <<"i", "6", "4">>),
    TokenDefinition("U8", <<"u", "8">>),
    TokenDefinition("U16", <<"u", "1", "6">>),
    TokenDefinition("U32", <<"u", "3", "2">>),
    TokenDefinition("U64", <<"u", "6", "4">>),
    TokenDefinition("F32", <<"f", "3", "2">>),
    TokenDefinition("F64", <<"f", "6", "4">>)>>

\* The single-character tokens after the two-character ones.
Tokens_SingleFirst ==
  <<TokenDefinition("NOT", <<"!">>),
    TokenDefinition("AMPERSAND", <<"&">>),
    TokenDefinition("LT", <<"<">>),
    TokenDefinition("GT", <<">">>),
    TokenDefinition("PLUS", <<"+">>),
    TokenDefinition("MINUS", <<"-">>),
    TokenDefinition("STAR", <<"*">>),
    TokenDefinition("SLASH", <<"/">>),
    TokenDefinition("PERCENT", <<"%">>),
    TokenDefinition("ASSIGN", <<"=">>),
    TokenDefinition("LPAREN", <<"(">>),
    TokenDefinition("RPAREN", <<")">>),
    TokenDefinition("LBRACE", <<"{">>),
    TokenDefinition("RBRACE", <<"}">>),
    TokenDefinition("LBRACKET", <<"[">>),
    TokenDefinition("SEMICOLON", <<";">>),
    TokenDefinition("RBRACKET", <<"]">>),
    TokenDefinition("SEMICOLON", <<";">>),
    TokenDefinition("COLON", <<":">>),
    TokenDefinition("COMMA", <<",">>),
    TokenDefinition("DOT", <<".">>),
    TokenDefinition("EQ", <<"=", "=">>),
    TokenDefinition("NEQ", <<"!", "=">>),
    TokenDefinition("LEQ", <<"<", "=">>),
    TokenDefinition("GEQ", <<">", "=">>),
    TokenDefinition("AND", <<"&", "&">>),
    TokenDefinition("OR", <<"|", "|">>),
    TokenDefinition("ARROW", <<"-", ">">>)>>

Tokens ==
  <<TokenDefinition("EQ", <<"=", "=">>),
    TokenDefinition("NEQ", <<"!", "=">>),
    TokenDefinition("LEQ", <<"<", "=">>),
    TokenDefinition("GEQ", <<">", "=">>),
    TokenDefinition("AND", <<"&", "&">>),
    TokenDefinition("OR", <<"|", "|">>),
    TokenDefinition("ARROW", <<"-", ">">>),
    TokenDefinition("NOT", <<"!">>),
    TokenDefinition("AMPERSAND", <<"&">>),
    TokenDefinition("LT", <<"<">>),
    TokenDefinition("GT", <<">">>),
    TokenDefinition("PLUS", <<"+">>),
    TokenDefinition("MINUS", <<"-">>),
    TokenDefinition("STAR", <<"*">>),
    TokenDefinition("SLASH", <<"/">>),
    TokenDefinition("PERCENT", <<"%">>),
    TokenDefinition("ASSIGN", <<"=">>),
    TokenDefinition("LPAREN", <<"(">>),
    TokenDefinition("RPAREN", <<")">>),
    TokenDefinition("LBRACE", <<"{">>),
    TokenDefinition("RBRACE", <<"}">>),
    TokenDefinition("LBRACKET", <<"[">>),
    TokenDefinition("SEMICOLON", <<";">>),
    TokenDefinition("RBRACKET", <<"]">>),
    TokenDefinition("SEMICOLON", <<";">>),
    TokenDefinition("COLON", <<":">>),
    TokenDefinition("COMMA", <<",">>),
    TokenDefinition("DOT", <<".">>)>>

\* Of the characters drawn, a and e are the letters and 1 is the digit.
is_alpha(c) == c \in {"a", "e"}

is_digit(c) == c \in {"1"}

is_alphanumeric(c) == is_alpha(c) \/ is_digit(c)

is_identifier_start(c) == is_alpha(c) \/ c = "_"

is_identifier(c) == is_alphanumeric(c) \/ c = "_"

is_string_start(c) == c = "\""

is_whitespace(c) == c \in {" ", "\t", "\n", "\r"}

\* The Lexer's position fields as one value.
Lx(position, line, column, current) ==
  [position_ |-> position, line_ |-> line, column_ |-> column, current_ |-> current]

This == Lx(position_, line_, column_, current_)

is_at_end(lx) == lx.position_ >= Len(source_)

advance(lx) ==
  Lx(lx.position_ + 1,
     IF lx.current_ = "\n" THEN lx.line_ + 1 ELSE lx.line_,
     IF lx.current_ = "\n" THEN 1 ELSE lx.column_ + 1,
     IF lx.position_ + 1 < Len(source_) THEN source_[lx.position_ + 2] ELSE NUL)

RECURSIVE advance_times(_, _)
advance_times(lx, n) == IF n = 0 THEN lx ELSE advance_times(advance(lx), n - 1)

\* The outcome of a function returning bool: the flag and the Lexer after it.
Outcome(ok, lx) == [ok |-> ok, lx |-> lx]

try_consume(lx, value) ==
  IF lx.position_ + Len(value) > Len(source_) THEN Outcome(FALSE, lx)
  ELSE IF SubSeq(source_, lx.position_ + 1, lx.position_ + Len(value)) # value
    THEN Outcome(FALSE, lx)
  ELSE Outcome(TRUE, advance_times(lx, Len(value)))

\* advance_while(predicate), the predicate given as the set of characters it
\* accepts.
RECURSIVE advance_while(_, _)
advance_while(lx, accepted) ==
  IF ~is_at_end(lx) /\ lx.current_ \in accepted
    THEN advance_while(advance(lx), accepted)
    ELSE lx

advance_if(lx, chars) ==
  IF is_at_end(lx) THEN Outcome(FALSE, lx)
  ELSE IF lx.current_ \in chars THEN Outcome(TRUE, advance(lx))
  ELSE Outcome(FALSE, lx)

Characters == Alphabet \cup {NUL, "_", "\t", "\r"}

skip_whitespace(lx) == advance_while(lx, {c \in Characters : is_whitespace(c)})

\* body(x) with x the value of v, v being evaluated once.
Bind(v, body(_)) == CHOOSE r \in {body(x) : x \in {v}} : TRUE

\* while (!is_at_end() && current_ != '\n') advance();
RECURSIVE skip_line(_)
skip_line(lx) ==
  IF ~is_at_end(lx) /\ lx.current_ # "\n" THEN skip_line(advance(lx)) ELSE lx

\* while (!is_at_end()) { if (try_consume("*/")) break; advance(); }
RECURSIVE skip_block(_)
skip_block(lx) ==
  IF is_at_end(lx) THEN lx
  ELSE Bind(try_consume(lx, <<"*", "/">>),
            LAMBDA closed : IF closed.ok THEN closed.lx ELSE skip_block(advance(lx)))

skip_comment(lx) ==
  Bind(try_consume(lx, <<"/", "/">>), LAMBDA line :
    IF line.ok THEN Outcome(TRUE, skip_line(line.lx))
    ELSE Bind(try_consume(lx, <<"/", "*">>), LAMBDA block :
           IF block.ok THEN Outcome(TRUE, skip_block(block.lx))
           ELSE Outcome(FALSE, lx)))

RECURSIVE skip_ignored(_)
skip_ignored(lx) ==
  Bind(skip_comment(skip_whitespace(lx)),
       LAMBDA comment : IF comment.ok THEN skip_ignored(comment.lx) ELSE comment.lx)

Location(lx) == [line |-> lx.line_, column |-> lx.column_]

Token(type, text, location) ==
  [type |-> type, text |-> text, line |-> location.line, column |-> location.column]

\* What a function returning a Token leaves: the token and the Lexer after it.
Lexed(token, lx) == [token |-> token, lx |-> lx]

Text(from, to) == SubSeq(source_, from.position_ + 1, to.position_)

RECURSIVE get_keyword_from(_, _)
get_keyword_from(text, i) ==
  IF i > Len(Keywords) THEN "none"
  ELSE IF Keywords[i].value = text THEN Keywords[i].type
  ELSE get_keyword_from(text, i + 1)

get_keyword(text) == get_keyword_from(text, 1)

identifier(lx) ==
  LET end == advance_while(lx, {c \in Characters : is_identifier(c)})
      text == Text(lx, end)
  IN IF get_keyword(text) # "none"
       THEN Lexed(Token(get_keyword(text), text, Location(lx)), end)
       ELSE Lexed(Token("IDENTIFIER", text, Location(lx)), end)

number(lx) ==
  LET digits == {c \in Characters : is_digit(c)}
      whole == advance_while(lx, digits)
      dot == advance_if(whole, {"."})
      fraction == IF dot.ok THEN advance_while(dot.lx, digits) ELSE dot.lx
      e == advance_if(fraction, {"e", "E"})
      exponent == IF e.ok
                    THEN advance_while(advance_if(e.lx, {"+", "-"}).lx, digits)
                    ELSE e.lx
      is_float == dot.ok \/ e.ok
  IN Lexed(Token(IF is_float THEN "FLOAT_LITERAL" ELSE "INTEGER_LITERAL",
                 Text(lx, exponent), Location(lx)),
           exponent)

\* The character an escape sequence stands for.
Escaped(c) ==
  CASE c = "n" -> "\n"
    [] c = "t" -> "\t"
    [] c = "r" -> "\r"
    [] c = "0" -> NUL
    [] OTHER -> c

\* The loop of string(): value is what has been collected.
RECURSIVE string_body(_, _)
string_body(lx, value) ==
  IF ~is_at_end(lx) /\ lx.current_ # "\""
    THEN IF lx.current_ = "\\"
           THEN string_body(advance(advance(lx)),
                            Append(value, Escaped(advance(lx).current_)))
           ELSE string_body(advance(lx), Append(value, lx.current_))
    ELSE [lx |-> lx, value |-> value]

string(lx) ==
  LET body == string_body(advance(lx), <<>>)
      end == IF body.lx.current_ = "\"" THEN advance(body.lx) ELSE body.lx
  IN Lexed(Token("STRING_LITERAL", body.value, Location(lx)), end)

\* for (auto& token : Tokens) if (try_consume(token.value)) return ...
RECURSIVE first_token(_, _)
first_token(lx, i) ==
  IF i > Len(Tokens) THEN Lexed(Token("none", <<>>, Location(lx)), lx)
  ELSE Bind(try_consume(lx, Tokens[i].value), LAMBDA matched :
         IF matched.ok
           THEN Lexed(Token(Tokens[i].type, Tokens[i].value, Location(lx)), matched.lx)
           ELSE first_token(lx, i + 1))

\* The invalid character left where it is.
invalid_token_Unconsumed(lx) ==
  Lexed(Token("INVALID", <<lx.current_>>, Location(lx)), lx)

invalid_token(lx) ==
  Lexed(Token("INVALID", <<lx.current_>>, Location(lx)), advance(lx))

next_token(lx) ==
  Bind(skip_ignored(lx), LAMBDA start :
    IF is_at_end(start) THEN Lexed(Token("END_OF_FILE", <<>>, Location(start)), start)
    ELSE IF is_identifier_start(start.current_) THEN identifier(start)
    ELSE IF is_digit(start.current_) THEN number(start)
    ELSE IF is_string_start(start.current_) THEN string(start)
    ELSE Bind(first_token(start, 1), LAMBDA operator :
           IF operator.token.type # "none" THEN operator ELSE invalid_token(start)))

(***************************************************************************)
(* LexSpec: a Lexer is constructed on a source and tokenize() runs, one    *)
(* step for each turn of its loop.                                         *)
(***************************************************************************)
NoResolver ==
  /\ program = <<>>
  /\ program_scope = EmptyScope
  /\ scope_stack = <<>>
  /\ symbols = <<>>
  /\ struct_types = <<>>
  /\ idx = 1
  /\ tasks = <<>>
  /\ expr_type = NoSlots
  /\ expr_symbol = NoSlots
  /\ decl_symbol = NoSlots
  /\ member_symbol = NoSlots
  /\ node_type = NoSlots
  /\ member_type = NoSlots
  /\ error = NoError

resolver == <<program, program_scope, scope_stack, symbols, struct_types, idx,
              tasks, annotations, error>>

LexInit ==
  /\ NoResolver
  /\ NoConsumer
  /\ NoSourceFile
  /\ pc = "tokenize"
  /\ source_ \in SeqsUpTo(Alphabet, MaxSource)
  /\ position_ = 0
  /\ line_ = 1
  /\ column_ = 1
  /\ current_ = IF source_ # <<>> THEN source_[1] ELSE NUL
  /\ tokens = <<>>

\* One turn of the loop of tokenize(): next_token(), push_back, and the break
\* on END_OF_FILE.
Tokenize ==
  /\ pc = "tokenize"
  /\ \E lexed \in {next_token(This)} :
     /\ tokens' = Append(tokens, lexed.token)
     /\ position_' = lexed.lx.position_
     /\ line_' = lexed.lx.line_
     /\ column_' = lexed.lx.column_
     /\ current_' = lexed.lx.current_
     /\ pc' = IF lexed.token.type = "END_OF_FILE" THEN "tokenized" ELSE "tokenize"
  /\ UNCHANGED <<source_, resolver, consumer, source_file>>

LexNext == Tokenize

LexSpec == LexInit /\ [][LexNext]_vars

\* The sources that end inside a string, an escape or a block comment, or
\* hold a character no token starts with, among others.
OpenEnded == {"a", " ", "\"", "\\", "/", "*", "#"}

OpenEndedInit ==
  /\ LexInit
  /\ \A i \in DOMAIN source_ : source_[i] \in OpenEnded

\* tokenize() is a sequential loop: it takes its next turn.
LexFairSpec == OpenEndedInit /\ [][LexNext]_vars /\ WF_vars(LexNext)

(***************************************************************************)
(* C18.  Where next_token starts a token (after what it skips) and a       *)
(* two-character operator ==, !=, <=, >=, &&, || or -> matches the input   *)
(* that remains, it emits that operator's token and consumes both          *)
(* characters, never the one-character token that is its prefix.           *)
(***************************************************************************)
TwoCharacterOperators ==
  {TokenDefinition("EQ", <<"=", "=">>), TokenDefinition("NEQ", <<"!", "=">>),
   TokenDefinition("LEQ", <<"<", "=">>), TokenDefinition("GEQ", <<">", "=">>),
   TokenDefinition("AND", <<"&", "&">>), TokenDefinition("OR", <<"|", "|">>),
   TokenDefinition("ARROW", <<"-", ">">>)}

\* The input remaining at lx begins with text.
RemainingStartsWith(lx, text) ==
  /\ lx.position_ + Len(text) <= Len(source_)
  /\ SubSeq(source_, lx.position_ + 1, lx.position_ + Len(text)) = text

C18_LongestMatch ==
  [][pc = "tokenize" =>
       \A op \in TwoCharacterOperators :
         RemainingStartsWith(skip_ignored(This), op.value)
           => /\ tokens' = Append(tokens, Token(op.type, op.value,
                                                 Location(skip_ignored(This))))
              /\ position_' = skip_ignored(This).position_ + 2]_vars

\* The source  ===  has been tokenized as EQ, ASSIGN, END_OF_FILE.
C18_Witness ==
  /\ pc = "tokenized"
  /\ source_ = <<"=", "=", "=">>
  /\ [i \in DOMAIN tokens |-> tokens[i].type] = <<"EQ", "ASSIGN", "END_OF_FILE">>
  /\ tokens[2].column = 3

(***************************************************************************)
(* C19.  For every source -- with unterminated strings, unterminated block *)
(* comments and unknown characters among them -- tokenize terminates, and  *)
(* END_OF_FILE occurs in the token list exactly once, as its last token;   *)
(* every next_token call made before the end of the input consumes at      *)
(* least one character.                                                    *)
(***************************************************************************)
C19_TokenizeTerminates ==
  /\ <>(pc = "tokenized")
  /\ [](pc = "tokenized" => tokens # <<>> /\ Last(tokens).type = "END_OF_FILE")
  /\ [](\A i \in DOMAIN tokens :
          tokens[i].type = "END_OF_FILE" => i = Len(tokens) /\ pc = "tokenized")
  /\ [][position_ < Len(source_) => position_' > position_]_vars

\* An unknown character and then a string that is never closed have been
\* tokenized as INVALID, STRING_LITERAL, END_OF_FILE.
C19_Witness ==
  /\ pc = "tokenized"
  /\ source_ = <<"#", "\"", "a">>
  /\ [i \in DOMAIN tokens |-> tokens[i].type] = <<"INVALID", "STRING_LITERAL", "END_OF_FILE">>
  /\ tokens[2].text = <<"a">>
  /\ position_ = 3

(***************************************************************************)
(* ConsoleDiagnosticConsumer (diagnostic.h, diagnostic.cpp): its two       *)
(* uint32_t counters under consume and reset.  consume also prints the     *)
(* message, which changes no field of the consumer.                        *)
(* A number is held as two digits to the base 2^16, hi and lo: a uint32_t  *)
(* has both digits below 2^16 and wraps; a count of messages has a hi      *)
(* digit that can grow past that.  `consumed` counts the Error-or-Fatal    *)
(* and the Warning messages passed to consume since construction or the    *)
(* last reset, and the Notes and the calls made in this run.               *)
(* ConsumerSpec starts from a consumer just constructed or from one that   *)
(* has already consumed 2^32 - 2 messages of a level.                      *)
(***************************************************************************)
MaxCalls == 4

HalfWord == 65536

Number(hi, lo) == [hi |-> hi, lo |-> lo]

Zero == Number(0, 0)

\* n + 1, as a natural number.
Successor(n) ==
  IF n.lo = HalfWord - 1 THEN Number(n.hi + 1, 0) ELSE Number(n.hi, n.lo + 1)

\* ++u on a uint32_t.
Increment(u) ==
  IF u.lo = HalfWord - 1 THEN Number((u.hi + 1) % HalfWord, 0) ELSE Number(u.hi, u.lo + 1)

\* n modulo 2^32.
AsUInt32(n) == Number(n.hi % HalfWord, n.lo)

DiagnosticLevel == {"Note", "Warning", "Error", "Fatal"}

AlreadyConsumed == {Zero, Number(HalfWord - 1, HalfWord - 2)}

ConsumerInit ==
  /\ NoResolver
  /\ NoLexer
  /\ NoSourceFile
  /\ pc = "consumer"
  /\ \E e \in AlreadyConsumed, w \in AlreadyConsumed :
       /\ consumed = [errors |-> e, warnings |-> w, notes |-> 0, calls |-> 0]
       /\ error_count_ = AsUInt32(e)
       /\ warning_count_ = AsUInt32(w)

\* Only Error counts as an error.
counts_as_error_ErrorOnly(level) == level = "Error"

\* case DiagnosticLevel::Error: case DiagnosticLevel::Fatal:
counts_as_error(level) == level \in {"Error", "Fatal"}

consume(level) ==
  /\ error_count_' = IF counts_as_error(level) THEN Increment(error_count_)
                                               ELSE error_count_
  /\ warning_count_' = IF level = "Warning" THEN Increment(warning_count_)
                                            ELSE warning_count_

has_errors == error_count_.hi > 0 \/ error_count_.lo > 0

Consume ==
  /\ pc = "consumer"
  /\ consumed.calls < MaxCalls
  /\ \E level \in DiagnosticLevel :
       /\ consume(level)
       /\ consumed' =
            [errors |-> IF level \in {"Error", "Fatal"}
                         THEN Successor(consumed.errors) ELSE consumed.errors,
             warnings |-> IF level = "Warning"
                           THEN Successor(consumed.warnings) ELSE consumed.warnings,
             notes |-> consumed.notes + (IF level = "Note" THEN 1 ELSE 0),
             calls |-> consumed.calls + 1]
  /\ UNCHANGED <<lexer, resolver, source_file, pc>>

Reset ==
  /\ pc = "consumer"
  /\ consumed.calls < MaxCalls
  /\ error_count_' = Zero
  /\ warning_count_' = Zero
  /\ consumed' = [errors |-> Zero, warnings |-> Zero, notes |-> 0,
                  calls |-> consumed.calls + 1]
  /\ UNCHANGED <<lexer, resolver, source_file, pc>>

ConsumerNext == Consume \/ Reset

ConsumerSpec == ConsumerInit /\ [][ConsumerNext]_vars

\* A Note changes neither counter.
NoteChangesNothing ==
  consumed'.notes = consumed.notes + 1
    => error_count_' = error_count_ /\ warning_count_' = warning_count_

\* What consume and reset keep: each counter is the number of messages of
\* its levels modulo 2^32, hence that number while it is below 2^32.
CountersModuloUInt32 ==
  /\ [](/\ error_count_ = AsUInt32(consumed.errors)
        /\ warning_count_ = AsUInt32(consumed.warnings)
        /\ consumed.errors.hi < HalfWord => error_count_ = consumed.errors
        /\ consumed.warnings.hi < HalfWord => warning_count_ = consumed.warnings)
  /\ [][NoteChangesNothing]_vars

(***************************************************************************)
(* C20.  After any consume and reset calls on a ConsoleDiagnosticConsumer: *)
(* error_count is the number of Error and Fatal messages consumed since    *)
(* construction or the last reset, warning_count the number of Warning     *)
(* messages consumed since then, a Note changes neither counter, and       *)
(* has_errors holds exactly when error_count > 0.                          *)
(* The counters are uint32_t: the 2^32-th Error or Fatal message since the *)
(* last reset takes error_count_ back to 0 and has_errors to false.        *)
(***************************************************************************)
C20_ConsumerCounters ==
  /\ [](/\ error_count_ = consumed.errors
        /\ warning_count_ = consumed.warnings
        /\ has_errors <=> error_count_ # Zero)
  /\ [][NoteChangesNothing]_vars

(***************************************************************************)
(* SourceFile (diagnostic.h, diagnostic.cpp): the content, the offsets of  *)
(* its line starts as the constructor computes them, and get_line.         *)
(* SourceSpec starts from a SourceFile constructed over any content of up  *)
(* to MaxContent characters and calls get_line and print_source_context    *)
(* on it.  Offsets are 0-based as in the code; content_ is a sequence, so  *)
(* the character at offset i is content_[i + 1].                           *)
(***************************************************************************)
MaxContent == 3

ContentAlphabet == {"a", "\n", "\r"}

\* The offsets pushed by the loop of compute_line_offsets from offset i on.
RECURSIVE offsets_from(_, _)
offsets_from(content, i) ==
  IF i >= Len(content) THEN <<>>
  ELSE (IF content[i + 1] = "\n" THEN <<i + 1>> ELSE <<>>) \o offsets_from(content, i + 1)

compute_line_offsets(content) == <<0>> \o offsets_from(content, 0)

line_count == Len(line_offsets_)

\* content_.substr(start, length)
substr(content, start, length) == SubSeq(content, start + 1, start + length)

\* get_line that keeps a trailing carriage return.
get_line_KeepCR(line_num) ==
  IF line_num = 0 \/ line_num > Len(line_offsets_) THEN <<>>
  ELSE LET start == line_offsets_[line_num]
           end == IF line_num < Len(line_offsets_) THEN line_offsets_[line_num + 1] - 1
                                                  ELSE Len(content_)
       IN  substr(content_, start, end - start)

get_line(line_num) ==
  IF line_num = 0 \/ line_num > Len(line_offsets_) THEN <<>>
  ELSE LET start == line_offsets_[line_num]
           end == IF line_num < Len(line_offsets_) THEN line_offsets_[line_num + 1] - 1
                                                  ELSE Len(content_)
           stripped == IF end > start /\ content_[end] = "\r" THEN end - 1 ELSE end
       IN  substr(content_, start, stripped - start)

SourceInit ==
  /\ NoResolver
  /\ NoLexer
  /\ NoConsumer
  /\ pc = "source"
  /\ content_ \in SeqsUpTo(ContentAlphabet, MaxContent)
  /\ line_offsets_ = compute_line_offsets(content_)
  /\ got_line = [line_num |-> 0, text |-> <<>>]
  /\ context = [line |-> 0, column |-> Zero, length |-> Zero, carets |-> <<>>]

GetLine ==
  /\ pc = "source"
  /\ \E line_num \in 0..(line_count + 1) :
       got_line' = [line_num |-> line_num, text |-> get_line(line_num)]
  /\ UNCHANGED <<lexer, resolver, consumer, pc, content_, line_offsets_, context>>

(***************************************************************************)
(* ConsoleDiagnosticConsumer::print_source_context (diagnostic.cpp): the   *)
(* caret line under the error line.  col_num, length and caret_count are   *)
(* uint32_t, held as two digits to the base 2^16 like the counters above;  *)
(* the line number and the sizes of lines stay small and are plain         *)
(* numbers.  The spaces before the carets (visual_col) and the colours     *)
(* have no part in the count and are left out.                             *)
(***************************************************************************)
MaxColumn == 5

MaxLength == 3

UInt32Max == Number(HalfWord - 1, HalfWord - 1)

\* a + b on uint32_t.
Add32(a, b) ==
  Number((a.hi + b.hi + ((a.lo + b.lo) \div HalfWord)) % HalfWord, (a.lo + b.lo) % HalfWord)

\* a - b on uint32_t.
Sub32(a, b) ==
  Number((a.hi - b.hi - (IF a.lo < b.lo THEN 1 ELSE 0) + 2 * HalfWord) % HalfWord,
         (a.lo - b.lo + HalfWord) % HalfWord)

Less32(a, b) == a.hi < b.hi \/ (a.hi = b.hi /\ a.lo < b.lo)

Max32(a, b) == IF Less32(a, b) THEN b ELSE a

\* The carets print_source_context prints for a location on this file:
\* none when the error line is not among the lines shown or the column is 0.
carets_printed(line_num, col_num, length) ==
  LET end_line == IF line_num + 1 < line_count THEN line_num + 1 ELSE line_count
      line_content == get_line(line_num)
      size == Number(0, Len(line_content))
      requested == IF Less32(Zero, length) THEN length ELSE Number(0, 1)
      before == Sub32(col_num, Number(0, 1))
      caret_count == IF Less32(size, Add32(before, requested))
                     THEN Sub32(size, before)
                     ELSE requested
  IN  IF line_num >= 1 /\ line_num <= end_line /\ Less32(Zero, col_num)
      THEN <<Max32(Number(0, 1), caret_count)>>
      ELSE <<>>

Columns == {Number(0, c) : c \in 0..MaxColumn} \cup {UInt32Max}

Lengths == {Number(0, l) : l \in 0..MaxLength} \cup {UInt32Max}

PrintSourceContext ==
  /\ pc = "source"
  /\ \E line_num \in 1..(line_count + 1), col_num \in Columns, length \in Lengths :
       context' = [line |-> line_num, column |-> col_num, length |-> length,
                   carets |-> carets_printed(line_num, col_num, length)]
  /\ UNCHANGED <<lexer, resolver, consumer, pc, content_, line_offsets_, got_line>>

SourceNext == GetLine \/ PrintSourceContext

SourceSpec == SourceInit /\ [][SourceNext]_vars

\* The lines of a content: the pieces between its newline characters.
RECURSIVE SplitLines(_)
SplitLines(content) ==
  IF \A i \in DOMAIN content : content[i] # "\n" THEN <<content>>
  ELSE LET first == Min({i \in DOMAIN content : content[i] = "\n"})
       IN  <<SubSeq(content, 1, first - 1)>>
             \o SplitLines(SubSeq(content, first + 1, Len(content)))

WithoutCarriageReturn(text) ==
  IF text # <<>> /\ Last(text) = "\r" THEN Front(text) ELSE text

Newlines(content) == Cardinality({i \in DOMAIN content : content[i] = "\n"})

(***************************************************************************)
(* C21.  For any content, line_count is 1 plus the number of newline       *)
(* characters of the content; get_line(n) for 1 <= n <= line_count is the  *)
(* text of the n-th line without its newline and without one trailing      *)
(* carriage return; get_line(0) and get_line(n) for n > line_count are the *)
(* empty string.                                                           *)
(***************************************************************************)
C21_SourceFileLines ==
  pc = "source" =>
    /\ line_count = 1 + Newlines(content_)
    /\ line_count = Len(SplitLines(content_))
    /\ IF got_line.line_num \in 1..line_count
       THEN got_line.text = WithoutCarriageReturn(SplitLines(content_)[got_line.line_num])
       ELSE got_line.text = <<>>

\* "a\r\n\r": line 1 was read as "a", without the carriage return and the
\* newline.
C21_Witness ==
  /\ pc = "source"
  /\ content_ = <<"a", "\r", "\n">>
  /\ line_count = 2
  /\ got_line = [line_num |-> 1, text |-> <<"a">>]

\* max(1, line length - (column - 1)) for a column >= 1, as a number.
RemainingLength(text, column) ==
  IF column.hi = 0 /\ column.lo - 1 < Len(text) THEN Len(text) - (column.lo - 1) ELSE 1

(***************************************************************************)
(* C30.  In print_source_context, for every valid location (any column     *)
(* >= 1 and any length) and any line text, the number of carets printed    *)
(* under the error line is at least 1 and at most                          *)
(* max(1, line length - (column - 1)): a column beyond the end of the line *)
(* does not make the unsigned 32-bit subtraction of the clamp wrap around. *)
(* With column - 1 greater than the line length the clamp computes         *)
(* size - (col_num - 1) below zero, which as a uint32_t is close to 2^32.  *)
(***************************************************************************)
C30_CaretCountClamped ==
  pc = "source" /\ context.line >= 1 /\ Less32(Zero, context.column)
                /\ context.carets # <<>>
    => /\ ~Less32(context.carets[1], Number(0, 1))
       /\ ~Less32(Number(0, RemainingLength(get_line(context.line), context.column)),
                  context.carets[1])

\* What the code keeps: the bound holds whenever the column is at most one
\* past the end of the line and column - 1 + length does not pass 2^32.
CaretCountClampedInsideLine ==
  pc = "source" /\ context.line >= 1 /\ Less32(Zero, context.column)
                /\ context.carets # <<>>
                /\ context.column.hi = 0
                /\ context.column.lo - 1 <= Len(get_line(context.line))
                /\ context.length # UInt32Max
    => /\ ~Less32(context.carets[1], Number(0, 1))
       /\ ~Less32(Number(0, RemainingLength(get_line(context.line), context.column)),
                  context.carets[1])

(***************************************************************************)
(* C22.  In every run of resolve: every struct declaration's Struct symbol *)
(* is declared before any struct field type is resolved, every struct's    *)
(* field list is filled before any Function symbol is declared, and every  *)
(* Function symbol is declared before the visit of any top-level           *)
(* declaration begins.                                                     *)
(***************************************************************************)
SymbolsOfKind(kind) == {s \in DOMAIN symbols : symbols[s].kind = kind}

RECURSIVE Total(_)
Total(counts) == IF counts = <<>> THEN 0 ELSE Head(counts) + Total(Tail(counts))

\* Every struct declaration has its Struct symbol, in the Resolver's scope.
StructSymbolsDeclared ==
  /\ Cardinality(SymbolsOfKind("Struct")) = Cardinality(DeclsOfKind("StructDecl"))
  /\ \A d \in DeclsOfKind("StructDecl") :
       \E s \in SymbolsOfKind("Struct") :
         /\ symbols[s].name = program[d].name
         /\ program[d].name \in DOMAIN scope_stack[1]
         /\ s \in Range(scope_stack[1][program[d].name])

\* Every field of every struct declaration has been resolved and appended.
FieldListsFilled ==
  Total([i \in DOMAIN struct_types |-> Len(struct_types[i].fields)])
    = Total([d \in DOMAIN program |->
               IF program[d].kind = "StructDecl" THEN Len(program[d].members) ELSE 0])

FunctionSymbolsDeclared ==
  /\ Cardinality(SymbolsOfKind("Function")) = Cardinality(DeclsOfKind("FunctionDecl"))
  /\ \A d \in DeclsOfKind("FunctionDecl") :
       \E s \in SymbolsOfKind("Function") :
         /\ symbols[s].name = program[d].name
         /\ program[d].name \in DOMAIN scope_stack[1]
         /\ s \in Range(scope_stack[1][program[d].name])

FieldTypeResolved ==
  \E i \in DOMAIN struct_types : struct_types'[i].fields # struct_types[i].fields

FunctionSymbolDeclared ==
  \E s \in DOMAIN symbols' : s \notin DOMAIN symbols /\ symbols'[s].kind = "Function"

VisitBegins == tasks = <<>> /\ tasks' # <<>>

C22_HoistingOrder ==
  /\ [][FieldTypeResolved => StructSymbolsDeclared]_vars
  /\ [][FunctionSymbolDeclared => StructSymbolsDeclared /\ FieldListsFilled]_vars
  /\ [][VisitBegins => StructSymbolsDeclared /\ FieldListsFilled
                         /\ FunctionSymbolsDeclared]_vars
  /\ [](annotations # <<NoSlots, NoSlots, NoSlots, NoSlots, NoSlots, NoSlots>>
          => FunctionSymbolsDeclared)

\* The visit of the first declaration of  struct Point {x, y}  fn make()
\* fn main()  begins with the Struct symbol, both fields and both Function
\* symbols in place.
C22_Witness ==
  /\ program = PointProgram
  /\ pc = "visit"
  /\ tasks = <<Frame("visit", <<1>>)>>
  /\ Cardinality(SymbolsOfKind("Struct")) = 1
  /\ Len(struct_types[1].fields) = 2
  /\ Cardinality(SymbolsOfKind("Function")) = 2

(***************************************************************************)
(* C23.  From construction of a Resolver on, the scope stack has depth     *)
(* >= 1 and scope pushes and pops are strictly nested: each visited        *)
(* function declaration, block and for-loop pushes exactly one scope on    *)
(* entry and pops that same scope on exit; when resolve returns, and also  *)
(* when it fails at any point, the depth is back to 1, and pop_scope's     *)
(* 'Cannot pop global scope' fault is never reached.                       *)
(* A handler that has entered and not yet left is a "pop" step waiting in  *)
(* tasks, so nesting is: the depth is 1 plus the number of those steps.    *)
(***************************************************************************)
Depth == Len(scope_stack)

OpenGuards == Cardinality({k \in DOMAIN tasks : tasks[k].op = "pop"})

Entering ==
  /\ pc = "visit" /\ tasks # <<>> /\ Head(tasks).op = "visit"
  /\ NodeAt(Head(tasks).path).kind \in {"FunctionDecl", "BlockStmt", "ForStmt"}

Leaving == pc = "visit" /\ tasks # <<>> /\ Head(tasks).op = "pop"

C23_ScopesNested ==
  /\ [](pc \in {"declare_structs", "fill_structs", "declare_functions", "visit",
                "done", "failed"}
          => /\ Depth >= 1
             /\ pc = "visit" => Depth = 1 + OpenGuards
             /\ pc \in {"declare_structs", "fill_structs", "declare_functions",
                        "done", "failed"} => Depth = 1
             /\ error.msg # <<"Cannot pop global scope">>)
  /\ [][Entering /\ error' = NoError
          => /\ Depth' = Depth + 1
             /\ SubSeq(scope_stack', 1, Depth) = scope_stack
             /\ Last(tasks') = Frame("pop", Head(tasks).path)
                  \/ \E k \in DOMAIN tasks' :
                       /\ tasks'[k] = Frame("pop", Head(tasks).path)
                       /\ SubSeq(tasks', k + 1, Len(tasks')) = Tail(tasks)]_vars
  /\ [][Leaving => scope_stack' = Front(scope_stack) /\ error' = NoError]_vars
  /\ [][pc = "visit" /\ ~Entering /\ ~Leaving /\ error' = NoError
          => Depth' = Depth]_vars

\* Inside a block nested in a function's body: the function's scope, the
\* body's and the block's are open.
C23_Witness ==
  /\ pc = "visit"
  /\ Depth = 4
  /\ OpenGuards = 3
  /\ tasks # <<>> /\ Head(tasks).op = "visit"

(***************************************************************************)
(* C24.  While a Let's initializer is being resolved the Let's own symbol  *)
(* is not yet declared: a reference to the Let's name inside its           *)
(* initializer resolves to an enclosing binding of that name, or fails     *)
(* with UnresolvedIdentifier when there is none; when the initializer      *)
(* fails, the declared type is not resolved and no symbol is declared.     *)
(***************************************************************************)
\* The step resolves an expression of the initializer of the Let at path l.
InInitializer(l) ==
  /\ pc = "visit" /\ tasks # <<>> /\ Head(tasks).op # "let"
  /\ l = InnermostLet(tasks)
  /\ l # <<>>

HoistedNames == NamesOfKind("StructDecl") \cup NamesOfKind("FunctionDecl")

C24_LetInitializerFirst ==
  /\ [][ \A l \in {InnermostLet(tasks)} :
           InInitializer(l)
             => /\ ~IsSet(decl_symbol, l)
                /\ ~IsSet(node_type, l)
                /\ error' # NoError
                     => /\ ~IsSet(node_type', l)
                        /\ ~IsSet(decl_symbol', l)
                        /\ symbols' = symbols
                        /\ scope_stack' = <<scope_stack[1]>> ]_vars
  /\ [][ \A l \in {InnermostLet(tasks)} :
           (InInitializer(l) /\ Visiting("VariableExpr")
              /\ NodeAt(Here).name = NodeAt(l).name)
             => IF Undeclared(Here)
                  THEN /\ pc' = "failed"
                       /\ error' = UnknownIdentifierError(NodeAt(l).name)
                       /\ ~IsSet(expr_symbol', Here)
                  ELSE /\ error' = NoError
                       /\ IsSet(expr_symbol', Here)
                       /\ symbols[Value(expr_symbol', Here)].name = NodeAt(l).name
                       /\ IF BinderOf(Here).kind # "none"
                            THEN Value(expr_symbol', Here) = SymbolOfBinder(BinderOf(Here))
                            ELSE symbols[Value(expr_symbol', Here)].kind
                                   \in {"Struct", "Function"} ]_vars
  /\ [](\A l \in DOMAIN decl_symbol :
          NodeAt(l).kind = "LetStmt" /\ IsSet(expr_symbol, l \o <<1>>)
            => Value(expr_symbol, l \o <<1>>) # Value(decl_symbol, l))

\* fn h(x: int) { let x: int = x; x; }  resolved: the x of the initializer
\* is the parameter, the x after the Let is the Let's symbol.
C24_Witness ==
  /\ pc = "done"
  /\ program[1].name = "h"
  /\ IsSet(member_symbol, <<1, 1>>)
  /\ IsSet(decl_symbol, <<1, 1, 1>>)
  /\ NodeAt(<<1, 1, 1>>).name = "x"
  /\ IsSet(expr_symbol, <<1, 1, 1, 1>>)
  /\ Value(expr_symbol, <<1, 1, 1, 1>>) = Value(member_symbol, <<1, 1>>)
  /\ IsSet(expr_symbol, <<1, 1, 2, 1>>)
  /\ Value(expr_symbol, <<1, 1, 2, 1>>) = Value(decl_symbol, <<1, 1, 1>>)

(***************************************************************************)
(* C25.  The resolver never visits If and While condition expressions, For *)
(* range-start and range-end expressions, or Return value expressions: an  *)
(* undeclared identifier that occurs only in such a position does not fail *)
(* the pass, and after resolve every expression node in those positions    *)
(* has all its annotation slots unset.                                     *)
(***************************************************************************)
\* The paths of the initializers of the globals and of all below them.
InitializerPaths ==
  UNION {PathsUnder(program[d].kids[1], <<d, 1>>) : d \in DeclsOfKind("GlobalDecl")}

\* The paths of conditions, range bounds and return values.
SkippedPositions ==
  {p \in AllPaths :
     /\ Len(p) > 1
     /\ \/ NodeAt(Front(p)).kind \in {"IfStmt", "WhileStmt", "ReturnStmt"} /\ Last(p) = 1
        \/ NodeAt(Front(p)).kind = "ForStmt" /\ Last(p) \in {1, 2}}

\* Those expressions and every expression below them.
SkippedPaths ==
  LET positions == SkippedPositions
  IN  {p \in AllPaths : \E k \in 1..Len(p) : SubSeq(p, 1, k) \in positions}

Unannotated(p) ==
  /\ ~IsSet(expr_type, p)
  /\ ~IsSet(expr_symbol, p)
  /\ ~IsSet(decl_symbol, p)
  /\ ~IsSet(node_type, p)

\* The undeclared references outside those positions and outside the
\* initializers of globals, which are not visited either.
UndeclaredReferences ==
  {p \in AllPaths \ (SkippedPaths \cup InitializerPaths) :
     NodeAt(p).kind = "VariableExpr" /\ Undeclared(p)}

C25_ConditionsNotVisited ==
  LET skipped == SkippedPaths IN
  /\ \A p \in skipped : Unannotated(p)
  /\ \A k \in DOMAIN tasks : tasks[k].path \notin skipped
  /\ error.kind = "UnresolvedIdentifier"
       => \E p \in UndeclaredReferences : error = UnknownIdentifierError(NodeAt(p).name)
  /\ pc = "done" => UndeclaredReferences = {}

\* A function whose body has the undeclared u as a condition, a range start
\* or a return value, and nowhere else, has been resolved.
C25_Witness ==
  /\ pc = "done"
  /\ \E p \in SkippedPositions :
       /\ NodeAt(p) = VariableExpr("u")
       /\ Undeclared(p)
       /\ Unannotated(p)
       /\ NodeAt(Front(p)).kind \in {"IfStmt", "ForStmt"}
       /\ NodeAt(Front(p)).kind = "ForStmt" => IsSet(decl_symbol, Front(p))

(***************************************************************************)
(* C26.  Field access fails fatally whenever its object expression has no  *)
(* resolved type after being resolved; this is the outcome for every       *)
(* object that is a string literal, a binary, unary, call, index or cast   *)
(* expression, or a reference to a struct name, because the resolver       *)
(* assigns a type to none of these.                                        *)
(***************************************************************************)
UntypedKinds ==
  {"StringLiteralExpr", "BinaryOpExpr", "UnaryOpExpr", "CallExpr", "IndexExpr",
   "CastExpr"}

\* The expression at p is of a kind the resolver gives no type, or is a
\* resolved reference to a Struct symbol.
Untyped(p) ==
  \/ NodeAt(p).kind \in UntypedKinds
  \/ /\ NodeAt(p).kind = "VariableExpr"
     /\ IsSet(expr_symbol, p)
     /\ symbols[Value(expr_symbol, p)].kind = "Struct"

UntypedBaseError ==
  Err("InvalidFieldAccess", "UntypedBase", <<"field access on unknown type">>)

C26_UntypedObject ==
  /\ [](\A p \in DOMAIN expr_type :
          /\ ~Untyped(p)
          /\ NodeAt(p).kind = "FieldAccessExpr" => ~Untyped(p \o <<1>>))
  /\ [][ (pc = "visit" /\ tasks # <<>> /\ Head(tasks).op = "field")
         => /\ ObjectType(Here).kind = "Null"
                 => /\ pc' = "failed"
                    /\ error' = UntypedBaseError
                    /\ ~IsSet(expr_type', Here)
            /\ Untyped(Here \o <<1>>) => ObjectType(Here).kind = "Null" ]_vars

\* g().a  has failed: the call was resolved and has no type.
C26_Witness ==
  /\ pc = "failed"
  /\ error = UntypedBaseError
  /\ Len(program) = 3 /\ program[3].name = "m"
  /\ NodeAt(<<3, 1, 1, 1>>).kind = "FieldAccessExpr"
  /\ NodeAt(<<3, 1, 1, 1, 1>>).kind = "CallExpr"
  /\ IsSet(expr_symbol, <<3, 1, 1, 1, 1, 1>>)
  /\ ~IsSet(expr_type, <<3, 1, 1, 1, 1>>)
  /\ ~IsSet(expr_type, <<3, 1, 1, 1>>)

(***************************************************************************)
(* C27.  A top-level global variable is never declared as a symbol and its *)
(* initializer is never visited: a visited variable reference to a global  *)
(* variable's name from any function body fails with UnresolvedIdentifier  *)
(* unless a function, struct, parameter or local of that name is in scope, *)
(* and two global variables of the same name are accepted.                 *)
(***************************************************************************)
\* The symbols held by the slots of Lets, Fors and parameters.
BoundSymbols ==
  {Value(decl_symbol, k) : k \in DOMAIN decl_symbol}
    \cup {Value(member_symbol, k) : k \in DOMAIN member_symbol}

C27_GlobalsNotDeclared ==
  /\ [](LET initializers == InitializerPaths IN
        /\ SymbolsOfKind("Variable") \subseteq BoundSymbols
        /\ \A k \in DOMAIN decl_symbol : NodeAt(k).kind # "GlobalDecl"
        /\ \A p \in initializers : Unannotated(p)
        /\ \A k \in DOMAIN tasks : tasks[k].path \notin initializers)
  /\ [][ (Visiting("VariableExpr") /\ NodeAt(Here).name \in NamesOfKind("GlobalDecl"))
         => IF Undeclared(Here)
              THEN /\ pc' = "failed"
                   /\ error' = UnknownIdentifierError(NodeAt(Here).name)
              ELSE /\ error' = NoError
                   /\ IsSet(expr_symbol', Here) ]_vars
  /\ [][ Visiting("GlobalDecl")
         => /\ symbols' = symbols
            /\ scope_stack' = scope_stack \/ error' # NoError
            /\ error' # NoError => error'.kind = "UnresolvedTypeName"
            /\ NodeAt(Here).ty.kind # "TypeName" => error' = NoError ]_vars

\* let G: int = u;  let G: bool = true;  fn r(p: int) -> int { G; }
\* Both globals were accepted; the reference to G has failed.
C27_Witness ==
  /\ pc = "failed"
  /\ error = UnknownIdentifierError("G")
  /\ Len(program) = 3
  /\ program[1].kind = "GlobalDecl" /\ program[2].kind = "GlobalDecl"
  /\ program[1].name = "G" /\ program[2].name = "G"
  /\ IsSet(node_type, <<1>>) /\ IsSet(node_type, <<2>>)
  /\ ~IsSet(expr_symbol, <<1, 1>>)
  /\ ~IsSet(expr_symbol, <<3, 1, 1, 1>>)

(***************************************************************************)
(* C28, as claimed.  The FunctionSignature stored in a Function symbol at  *)
(* hoisting is never updated afterwards: after a successful resolve, a     *)
(* parameter or return type that was written as a struct name is still the *)
(* UnresolvedName placeholder inside the symbol's signature (and inside    *)
(* the type copied onto every reference to the function), while the        *)
(* function declaration's own parameter and return type slots hold the     *)
(* canonical Struct type.                                                  *)
(***************************************************************************)
FunctionPaths == {<<d>> : d \in DeclsOfKind("FunctionDecl")}

\* The parameters of the function at f, and its return type, that are
\* written as the name of a declared struct: 0 stands for the return type.
WrittenAsStruct(f) ==
  {i \in DOMAIN NodeAt(f).members :
     /\ NodeAt(f).members[i].type.kind = "TypeName"
     /\ NodeAt(f).members[i].type.name \in NamesOfKind("StructDecl")}
  \cup (IF NodeAt(f).ty.kind = "TypeName" /\ NodeAt(f).ty.name \in NamesOfKind("StructDecl")
          THEN {0} ELSE {})

Written(f, i) == IF i = 0 THEN NodeAt(f).ty ELSE NodeAt(f).members[i].type

\* What the declaration's own slot holds.
SlotOf(f, i) ==
  IF i = 0 THEN Value(node_type, f) ELSE Value(member_type, f \o <<i>>)

\* The signature is the one built at hoisting, on the symbol and on every
\* reference to the function.
SignatureKept ==
  /\ \A f \in FunctionPaths :
       \E s \in SymbolsOfKind("Function") : symbols[s] = HoistedSymbol(f[1])
  /\ \A s \in SymbolsOfKind("Function") :
       \E f \in FunctionPaths : symbols[s] = HoistedSymbol(f[1])
  /\ \A p \in DOMAIN expr_symbol :
       symbols[Value(expr_symbol, p)].kind = "Function"
         => /\ IsSet(expr_type, p)
            /\ Value(expr_type, p) = symbols[Value(expr_symbol, p)].type

C28_AsClaimed ==
  pc = "done"
    => /\ SignatureKept
       /\ \A f \in FunctionPaths : \A i \in WrittenAsStruct(f) :
            SlotOf(f, i) = CanonicalType(Written(f, i).name)

\* A parameter of the function declared before position i (before the
\* return type: any parameter) has the name n.
ShadowedByParam(f, i, n) ==
  \E j \in ParamsNamed(NodeAt(f), n) : i = 0 \/ j < i

(***************************************************************************)
(* C28, amended.  The signature is never updated and keeps the             *)
(* placeholders, on the symbol and on every reference; the declaration's   *)
(* own parameter and return type slots hold the canonical Struct type,     *)
(* except where a parameter declared earlier in the same function has the  *)
(* struct's name: there the slot keeps the placeholder too.                *)
(***************************************************************************)
C28_SignatureNotUpdated ==
  /\ [](pc = "done"
          => /\ SignatureKept
             /\ \A f \in FunctionPaths : \A i \in WrittenAsStruct(f) :
                  /\ \A s \in SymbolsOfKind("Function") :
                       symbols[s] = HoistedSymbol(f[1])
                         => (IF i = 0 THEN symbols[s].type.ret
                                      ELSE symbols[s].type.params[i]) = Written(f, i)
                  /\ SlotOf(f, i) =
                       IF ShadowedByParam(f, i, Written(f, i).name)
                         THEN Written(f, i)
                         ELSE CanonicalType(Written(f, i).name))
  /\ [][\A s \in DOMAIN symbols : symbols'[s] = symbols[s]]_vars

\* struct S  fn f(p: int, q: S) -> S  fn c() { f; }  resolved: q's slot and
\* the return slot hold the Struct type, the signature on the reference to
\* f holds the placeholders.
C28_Witness ==
  /\ pc = "done"
  /\ Len(program) = 3 /\ program[2].name = "f" /\ program[3].name = "c"
  /\ program[2].members[1].name = "p"
  /\ Value(member_type, <<2, 2>>).kind = "Struct"
  /\ Value(node_type, <<2>>).kind = "Struct"
  /\ IsSet(expr_type, <<3, 1, 1, 1>>)
  /\ Value(expr_type, <<3, 1, 1, 1>>)
       = FunctionType(<<IntT, TypeName("S")>>, TypeName("S"))

(***************************************************************************)
(* C29.  resolve_type applied to an UnresolvedName whose nearest binding   *)
(* (the symbol lookup_first returns) is a Variable or Function symbol      *)
(* returns the placeholder unchanged and raises no UnresolvedTypeName,     *)
(* even when a struct of that name is declared in an outer scope; so a     *)
(* successful resolve can leave a Let, parameter, return, global or cast   *)
(* type as an UnresolvedName.                                              *)
(***************************************************************************)
\* The nearest binding of n is a Variable or a Function symbol.
BoundToNonStruct(n) ==
  /\ lookup_first(CurrentChain, n).found
  /\ symbols[lookup_first(CurrentChain, n).sym].kind \in {"Variable", "Function"}

\* The step resolves the type written on the Let, cast or global at Here.
ResolvesWrittenType ==
  /\ pc = "visit" /\ tasks # <<>>
  /\ \/ Head(tasks).op = "let"
     \/ Head(tasks).op = "visit" /\ NodeAt(Here).kind \in {"CastExpr", "GlobalDecl"}
  /\ NodeAt(Here).ty.kind = "TypeName"

C29_NonStructBinding ==
  /\ [](\A n \in NamesInScope :
          BoundToNonStruct(n)
            => Resolved(TypeName(n)) = [ok |-> TRUE, type |-> TypeName(n), err |-> NoError])
  /\ [][ (ResolvesWrittenType /\ BoundToNonStruct(NodeAt(Here).ty.name))
         => /\ error'.kind # "UnresolvedTypeName"
            /\ IsSet(node_type', Here)
            /\ Value(node_type', Here) = NodeAt(Here).ty ]_vars
  /\ [](pc = "done"
          => \A f \in FunctionPaths : \A i \in WrittenAsStruct(f) :
               ShadowedByParam(f, i, Written(f, i).name) => SlotOf(f, i) = Written(f, i))

\* struct S  fn F()  let G: F  fn w(S: int) { let x: S = 1; x as S; }
\* resolved to the end: the Let's type and the cast's are still the name S,
\* the global's the name F, and S is the name of a declared struct.
C29_Witness ==
  /\ pc = "done"
  /\ Len(program) = 4 /\ program[4].name = "w"
  /\ "S" \in NamesOfKind("StructDecl")
  /\ program[4].members[1].name = "S"
  /\ Value(node_type, <<3>>) = TypeName("F")
  /\ Value(node_type, <<4, 1, 1>>) = TypeName("S")
  /\ Value(node_type, <<4, 1, 2, 1>>) = TypeName("S")

====
